---------------------------- MODULE Spec2Model ----------------------------
(***************************************************************************)
(* A model of the RAGgle backend (src/backend/indexing.py):                *)
(*   - NucliaIndexer.ask_with_json_schema: the decode loop over the        *)
(*     answer text and the merge of the decoded values;                    *)
(*   - extract_product_details_from_content: the JSON-LD pass and the      *)
(*     regex fallback chain;                                               *)
(*   - extract_bn_product_details_from_content: the DOM extractor.         *)
(*                                                                         *)
(* Texts are sequences of symbols.  A Python str is a sequence of one-     *)
(* character strings; a decoded JSON value is a record [t, v] with t its   *)
(* Python type and v its payload.                                          *)
(***************************************************************************)
EXTENDS Integers, Sequences, FiniteSets, TLC

(***************************************************************************)
(* Bounds of the model.                                                    *)
(***************************************************************************)
\* the number of chunks (documents, blanks, junk) an answer text is made of
MaxChunks == 3

(***************************************************************************)
(* Decoded JSON values (what json.loads / raw_decode give back).           *)
(***************************************************************************)
JStr(s)  == [t |-> "str",  v |-> s]
JNum(d)  == [t |-> "num",  v |-> d]
JList(l) == [t |-> "list", v |-> l]
JDict(m) == [t |-> "dict", v |-> m]

\* Python's None, as a value of the program
None == [t |-> "None", v |-> <<>>]
\* JSON null decodes to None
JNull == None

(***************************************************************************)
(* A str is a sequence of tokens; a token stands for a run of n characters *)
(* named s.  k tells what the regular expressions of                       *)
(* extract_product_details_from_content recognise in the run and p holds   *)
(* what they capture.                                                      *)
(***************************************************************************)
Tok(k, s, n, p) == [k |-> k, s |-> s, n |-> n, p |-> p]
Txt(s, n)       == Tok("text", s, n, None)
\* a str of one run
S(s, n)         == JStr(<<Txt(s, n)>>)

\* Python truthiness of a decoded value (`if item['summary']`, `if price`)
Truthy(j) ==
    CASE j.t = "str"  -> j.v # <<>>
      [] j.t = "num"  -> j.v # <<Txt("0", 1)>>
      [] j.t = "None" -> FALSE
      [] j.t = "list" -> j.v # <<>>
      [] j.t = "dict" -> DOMAIN j.v # {}
      [] j.t = "bool" -> j.v = <<Txt("true", 4)>>
      [] OTHER        -> FALSE

\* `key in item` for a dict
HasKey(item, key) == item.t = "dict" /\ key \in DOMAIN item.v

\* no exception is being raised
NoException == "none"

(***************************************************************************)
(* Sequence helpers.                                                       *)
(***************************************************************************)
RECURSIVE Flatten(_)
Flatten(ss) == IF ss = <<>> THEN <<>> ELSE Head(ss) \o Flatten(Tail(ss))

\* all sequences over S of length 0..n
SeqsUpTo(A, n) == UNION {[1..k -> A] : k \in 0..n}


(***************************************************************************)
(* The answer text of the /ask endpoint.  A text is a sequence of symbols: *)
(* a blank, a character no JSON value starts with, a one-character JSON    *)
(* number, and an object written as "{", its members, "}".                 *)
(***************************************************************************)
Sym(c)       == [c |-> c, obj |-> None]
Members(d)   == [c |-> "members", obj |-> d]

WsChunk      == <<Sym(" ")>>
JunkChunk    == <<Sym("x")>>
NumChunk     == <<Sym("7")>>
ObjChunk(d)  == <<Sym("{"), Members(d), Sym("}")>>
\* an object whose closing brace is missing
CutChunk(d)  == <<Sym("{"), Members(d)>>

PA == JDict([name |-> S("A", 1)])
PB == JDict([name |-> S("B", 1)])
PC == JDict([name |-> S("C", 1)])

DocA        == JDict([products |-> JList(<<PA>>)])
DocBC       == JDict([products |-> JList(<<PB, PC>>), summary |-> S("s", 1)])
DocNone     == JDict([products |-> JList(<<>>), summary |-> S("t", 1)])
DocSelf     == JDict([name |-> S("N", 1), price |-> S("9", 1)])
DocSum      == JDict([summary |-> S("u", 1)])
DocSumNum   == JDict([summary |-> JNum(<<Txt("5", 1)>>)])
DocSumEmpty == JDict([summary |-> JStr(<<>>)])
DocProdSum5 == JDict([products |-> JList(<<PB>>), summary |-> JNum(<<Txt("5", 1)>>)])
DocSumNull  == JDict([products |-> JList(<<PC>>), summary |-> JNull])
DocProdStr  == JDict([products |-> S("p", 1), name |-> S("M", 1),
                      price |-> JNum(<<Txt("3", 1)>>)])
DocBoth     == JDict([products |-> JList(<<PA>>), name |-> S("K", 1),
                      price |-> S("1", 1)])
DocNameOnly == JDict([name |-> S("L", 1)])

Docs == {DocA, DocBC, DocNone, DocSelf, DocSum, DocSumNum, DocSumEmpty, DocProdSum5,
         DocSumNull, DocProdStr, DocBoth, DocNameOnly}

\* what an answer text is made of
Chunks == {WsChunk, JunkChunk, NumChunk, CutChunk(DocA)} \cup {ObjChunk(d) : d \in Docs}

Citations == {<<>>, <<"c1">>}

(***************************************************************************)
(* json.JSONDecoder.raw_decode(s): one JSON value at the start of s, with  *)
(* the offset just after it, or JSONDecodeError.  It skips no blank.       *)
(***************************************************************************)
\* RawDecode giving the offset 0 after a number
RawDecode_EmptyMatch(s) ==
    IF s # <<>> /\ s[1].c = "7"
      THEN [ok |-> TRUE, obj |-> JNum(<<Txt("7", 1)>>), end |-> 0]
    ELSE IF Len(s) >= 3 /\ s[1].c = "{" /\ s[2].c = "members" /\ s[3].c = "}"
      THEN [ok |-> TRUE, obj |-> s[2].obj, end |-> 3]
    ELSE [ok |-> FALSE, obj |-> None, end |-> 0]

RawDecode(s) ==
    IF s # <<>> /\ s[1].c = "7"
      THEN [ok |-> TRUE, obj |-> JNum(<<Txt("7", 1)>>), end |-> 1]
    ELSE IF Len(s) >= 3 /\ s[1].c = "{" /\ s[2].c = "members" /\ s[3].c = "}"
      THEN [ok |-> TRUE, obj |-> s[2].obj, end |-> 3]
    ELSE [ok |-> FALSE, obj |-> None, end |-> 0]

\* str.isspace() of one character
IsSpace(sym) == sym.c = " "

\* str.lstrip()
RECURSIVE LStrip(_)
LStrip(s) == IF s # <<>> /\ IsSpace(Head(s)) THEN LStrip(Tail(s)) ELSE s

\* while pos < len(answer) and answer[pos].isspace(): pos += 1
RECURSIVE SkipSpace(_, _)
SkipSpace(s, p) == IF p < Len(s) /\ IsSpace(s[p + 1]) THEN SkipSpace(s, p + 1) ELSE p

\* answer[pos:]
From(s, p) == SubSeq(s, p + 1, Len(s))

(***************************************************************************)
(* The merge of the decoded values (lines 276-286).                        *)
(***************************************************************************)
\* ProductsOf with append in the place of extend
ProductsOf_Append(item) ==
    IF item.t # "dict" THEN <<>>
    ELSE IF HasKey(item, "products") /\ item.v.products.t = "list"
      THEN <<item.v.products>>
    ELSE IF HasKey(item, "name") /\ HasKey(item, "price")
      THEN <<item>>
    ELSE <<>>

\* ProductsOf with `if` in the place of `elif` at line 282
ProductsOf_SelfToo(item) ==
    IF item.t # "dict" THEN <<>>
    ELSE (IF HasKey(item, "products") /\ item.v.products.t = "list"
            THEN item.v.products.v ELSE <<>>)
         \o (IF HasKey(item, "name") /\ HasKey(item, "price") THEN <<item>> ELSE <<>>)

\* what one decoded item adds to all_products
ProductsOf(item) ==
    IF item.t # "dict" THEN <<>>
    ELSE IF HasKey(item, "products") /\ item.v.products.t = "list"
      THEN item.v.products.v
    ELSE IF HasKey(item, "name") /\ HasKey(item, "price")
      THEN <<item>>
    ELSE <<>>

\* SummariesOf with the summary test as one more elif of the products chain
SummariesOf_Elif(item) ==
    IF /\ item.t = "dict"
       /\ ~(HasKey(item, "products") /\ item.v.products.t = "list")
       /\ ~(HasKey(item, "name") /\ HasKey(item, "price"))
       /\ HasKey(item, "summary") /\ Truthy(item.v.summary)
      THEN <<item.v.summary>>
      ELSE <<>>

\* what one decoded item adds to summaries
SummariesOf(item) ==
    IF item.t = "dict" /\ HasKey(item, "summary") /\ Truthy(item.v.summary)
      THEN <<item.v.summary>>
      ELSE <<>>

RECURSIVE CollectProducts(_)
CollectProducts(items) ==
    IF items = <<>> THEN <<>>
    ELSE ProductsOf(Head(items)) \o CollectProducts(Tail(items))

RECURSIVE CollectSummaries(_)
CollectSummaries(items) ==
    IF items = <<>> THEN <<>>
    ELSE SummariesOf(Head(items)) \o CollectSummaries(Tail(items))

\* " | ".join(summaries), defined when every element is a str
Separator == <<Txt(" | ", 3)>>

RECURSIVE Join(_)
Join(ss) ==
    IF ss = <<>> THEN <<>>
    ELSE IF Len(ss) = 1 THEN ss[1].v
    ELSE ss[1].v \o Separator \o Join(Tail(ss))

\* str.join raises TypeError on an element that is not a str
JoinRaises(ss) == \E i \in 1..Len(ss) : ss[i].t # "str"

(***************************************************************************)
(* Slices and lengths of a str.                                            *)
(***************************************************************************)

\* len(text)
RECURSIVE CharLen(_)
CharLen(text) == IF text = <<>> THEN 0 ELSE Head(text).n + CharLen(Tail(text))

\* text[:m]
RECURSIVE TakeChars(_, _)
TakeChars(text, m) ==
    IF text = <<>> \/ m <= 0 THEN <<>>
    ELSE IF Head(text).n <= m
      THEN <<Head(text)>> \o TakeChars(Tail(text), m - Head(text).n)
    ELSE <<[Head(text) EXCEPT !.n = m]>>

\* line 549: the length of the default description
DefaultDescriptionLength == 200
\* line 581: the length of a JSON-LD description
JsonLdDescriptionLength == 300

(***************************************************************************)
(* URLs: "https:", "//", host, "/", directories ending in "/", file.       *)
(***************************************************************************)
U(s, n) == Txt(s, n)
Https   == U("https:", 6)
Http    == U("http:", 5)
Slashes == U("//", 2)
Slash   == U("/", 1)
DotSlash == U("./", 2)

UrlShopHttps == <<Https, Slashes, U("shop.com", 8), Slash, U("p/", 2), U("item", 4)>>
UrlShopHttp  == <<Http, Slashes, U("shop.com", 8), Slash, U("p/", 2), U("item", 4)>>
SourceUrls   == {<<>>, UrlShopHttps, UrlShopHttp}

UrlProtoRel  == <<Slashes, U("cdn.x", 5), Slash, U("a.jpg", 5)>>
UrlRootRel   == <<Slash, U("img/", 4), U("a.jpg", 5)>>
UrlDotRel    == <<DotSlash, U("a.jpg", 5)>>
UrlBare      == <<U("a.jpg", 5)>>
UrlAbsHttp   == <<Http, Slashes, U("cdn.x", 5), Slash, U("a.jpg", 5)>>
UrlAbsHttps  == <<Https, Slashes, U("cdn.x", 5), Slash, U("b.png", 5)>>

\* str.startswith
StartsWithHttp(u)       == u # <<>> /\ u[1] \in {Http, Https}
StartsWithSlash(u)      == u # <<>> /\ u[1] \in {Slash, Slashes}
StartsWithDotSlash(u)   == u # <<>> /\ u[1] = DotSlash
StartsWithTwoSlashes(u) == u # <<>> /\ u[1] = Slashes

\* the base up to its last "/": scheme, "//", host, "/", directories
RECURSIVE DirOf(_)
DirOf(u) ==
    IF u = <<>> THEN <<>>
    ELSE IF u[Len(u)] \in {Slash, U("p/", 2), U("img/", 4)} THEN u
    ELSE DirOf(SubSeq(u, 1, Len(u) - 1))

\* urllib.parse.urljoin(base, ref) for a base that is empty or absolute
UrlJoin(base, ref) ==
    IF base = <<>> THEN ref
    ELSE IF ref = <<>> THEN base
    ELSE IF StartsWithHttp(ref) THEN ref
    ELSE IF StartsWithTwoSlashes(ref) THEN <<base[1]>> \o ref
    ELSE IF StartsWithSlash(ref) THEN SubSeq(base, 1, 3) \o ref
    ELSE IF StartsWithDotSlash(ref) THEN DirOf(base) \o Tail(ref)
    ELSE DirOf(base) \o ref

\* lines 646-655: the image URL made absolute
NormalizeImageUrl(img_url, src) ==
    IF StartsWithHttp(img_url) THEN img_url
    ELSE IF src # <<>> /\ (StartsWithSlash(img_url) \/ StartsWithDotSlash(img_url))
      THEN UrlJoin(src, img_url)
    ELSE IF src # <<>> /\ ~StartsWithTwoSlashes(img_url)
      THEN UrlJoin(src, img_url)
    ELSE IF StartsWithTwoSlashes(img_url) THEN <<Https>> \o img_url
    ELSE img_url

(***************************************************************************)
(* JSON-LD payloads: the text between the script tags, as json.loads sees  *)
(* it.                                                                     *)
(***************************************************************************)
BadJson      == [valid |-> FALSE, val |-> None]
Json(j)      == [valid |-> TRUE, val |-> j]
Product(m)   == JDict(("@type" :> S("Product", 7)) @@ m)

\* the example of the specification
JLamp     == Product([name |-> S("Lamp", 4),
                      offers |-> JDict([price |-> S("19.99", 5)])])
JFull     == Product([name |-> S("Desk", 4),
                      offers |-> JDict([price |-> JNum(<<Txt("24.5", 4)>>)]),
                      image |-> JList(<<JStr(UrlAbsHttps), JStr(UrlAbsHttp)>>),
                      description |-> S("a long description", 350),
                      brand |-> JDict([name |-> S("Acme", 4)])])
JPlain    == Product([image |-> JStr(UrlRootRel), brand |-> S("Bolt", 4),
                      description |-> S("short", 5)])
JDescNum  == Product([name |-> S("Odd", 3), description |-> JNum(<<Txt("5", 1)>>)])
JDescDict == Product([name |-> S("Map", 3), description |-> JDict([a |-> JNull])])
JDescDictPriced ==
    Product([name |-> S("Map", 3), offers |-> JDict([price |-> JNum(<<Txt("5", 1)>>)]),
             description |-> JDict([a |-> JNull])])
JNulls    == Product([name |-> JNull, image |-> JList(<<JNull>>),
                      brand |-> JDict([name |-> JNull])])
JOrg      == JDict(("@type" :> S("Organization", 12)))
JArray    == JList(<<JLamp>>)

LdBlock(s, n, payload) == Tok("ldjson", s, n, payload)

LdLamp     == LdBlock("ld:lamp", 104, Json(JLamp))
LdFull     == LdBlock("ld:full", 520, Json(JFull))
LdPlain    == LdBlock("ld:plain", 120, Json(JPlain))
LdDescNum  == LdBlock("ld:descnum", 90, Json(JDescNum))
LdDescDict == LdBlock("ld:descdict", 96, Json(JDescDict))
LdDescDictPriced == LdBlock("ld:descdict:priced", 124, Json(JDescDictPriced))
LdNulls    == LdBlock("ld:nulls", 110, Json(JNulls))
LdOrg      == LdBlock("ld:org", 70, Json(JOrg))
LdArray    == LdBlock("ld:array", 106, Json(JArray))
LdBad      == LdBlock("ld:bad", 60, BadJson)

(***************************************************************************)
(* What the fallback patterns recognise.  p is group(1) of the match.      *)
(***************************************************************************)
\* For a title p is the text between the tags, which begins with a character
\* other than "|"; for an availability match it is group(1) as it is written.
Blank   == Txt(" ", 1)
Newline == Txt("\n", 1)
Hyphen  == Txt("-", 1)
Pipe    == Txt("|", 1)
Comma   == Txt(",", 1)

TitleMouse  == Tok("title", "<title>Wireless Mouse - BestShop</title>", 40,
                   <<Txt("Wireless Mouse", 14), Blank, Hyphen, Blank, Txt("BestShop", 8)>>)
TitleShort  == Tok("title", "<title>Hi</title>", 17, <<Txt("Hi", 2)>>)
TitleAmp    == Tok("title", "<title>R&amp;D</title>", 22,
                   <<Txt("R", 1), Txt("&amp;", 5), Txt("D", 1)>>)
TitleHyphen == Tok("title", "<title>Wi-Fi Router|Shop</title>", 32,
                   <<Txt("Wi", 2), Hyphen, Txt("Fi Router", 9), Pipe, Txt("Shop", 4)>>)
TitlePipe   == Tok("title", "<title> Desk Lamp | Shop</title>", 32,
                   <<Blank, Txt("Desk Lamp", 9), Blank, Pipe, Blank, Txt("Shop", 4)>>)
JsonName    == Tok("json_name", "name: Trackball", 19, <<Txt("Trackball", 9)>>)
OgTitle     == Tok("og_title", "<meta property=og:title content=Mouse Pro>", 46,
                   <<Txt("Mouse Pro", 9)>>)
H1Lamp      == Tok("h1", "<h1>Floor Lamp</h1>", 19, <<Txt("Floor Lamp", 10)>>)
H1Short     == Tok("h1", "<h1>abc</h1>", 12, <<Txt("abc", 3)>>)

PriceTag       == Tok("currency_amount", "$19.99", 6, <<Txt("19.99", 5)>>)
CurrencyCommas == Tok("currency_amount", "$,", 2, <<Comma>>)
JsonPrice      == Tok("json_price", "price: 1,299.00", 19,
                      <<Txt("1", 1), Comma, Txt("299.00", 6)>>)
JsonPriceBad   == Tok("json_price", "price: ,.", 13, <<Comma, Txt(".", 1)>>)
PriceSpan      == Tok("price_span", "<span class=price>45", 22, <<Txt("45", 2)>>)

BrandMeta  == Tok("meta_brand", "<meta name=brand content=Acme>", 34, <<Txt("Acme", 4)>>)

InStock      == Tok("availability", "In stock", 8, <<Txt("In", 2), Blank, Txt("stock", 5)>>)
InStockBreak == Tok("availability", "in/stock", 8, <<Txt("in", 2), Newline, Txt("stock", 5)>>)
OutOfStock   == Tok("availability", "OUT of stock", 12,
                    <<Txt("OUT", 3), Blank, Txt("of", 2), Blank, Txt("stock", 5)>>)
Available    == Tok("availability", "available", 9, <<Txt("available", 9)>>)
PreOrder     == Tok("availability", "pre-order", 9, <<Txt("pre", 3), Hyphen, Txt("order", 5)>>)
BackOrder    == Tok("availability", "backorder", 9, <<Txt("backorder", 9)>>)
ImgTag(s, n, url) == Tok("img_src", s, n, url)
OgImage(s, n, url) == Tok("og_image", s, n, url)
ImgProtoRel == ImgTag("<img src=//cdn.x/a.jpg>", 25, UrlProtoRel)
ImgRootRel  == ImgTag("<img src=/img/a.jpg>", 22, UrlRootRel)
ImgDotRel   == ImgTag("<img src=./a.jpg>", 19, UrlDotRel)
ImgBare     == ImgTag("<img src=a.jpg>", 17, UrlBare)
ImgAbs      == ImgTag("<img src=http://cdn.x/a.jpg>", 30, UrlAbsHttp)
OgImageAbs  == OgImage("<meta property=og:image content=https://cdn.x/b.png>", 58,
                       UrlAbsHttps)
\* text no pattern matches
Pad         == Txt("lorem ipsum", 150)
Note        == Txt("plain words", 60)

ContentTokens ==
    {LdLamp, LdFull, LdPlain, LdDescNum, LdDescDict, LdNulls, LdOrg, LdArray, LdBad,
     TitleMouse, TitleShort, PriceTag, BrandMeta, InStock,
     ImgProtoRel, ImgRootRel, ImgDotRel, ImgBare, ImgAbs, OgImageAbs, Pad, Note}

\* the tokens the name, price and availability patterns are tried on
FallbackTokens ==
    {LdDescDict, LdDescDictPriced, LdLamp, LdBad,
     TitleMouse, TitleShort, TitleAmp, TitleHyphen, TitlePipe, JsonName, OgTitle,
     H1Lamp, H1Short,
     PriceTag, CurrencyCommas, JsonPrice, JsonPriceBad, PriceSpan,
     InStock, InStockBreak, OutOfStock, Available, PreOrder, BackOrder, Note}

\* The fallback patterns also match inside the text of a JSON-LD block:
\* "name": "...", "price": "<number>", "image": "<url>", "brand": {"name":
\* "..."} and brand ... "..." are read there as they are anywhere else.
InnerOfDict(j) ==
    (IF HasKey(j, "name") /\ j.v["name"].t = "str" /\ j.v["name"].v # <<>>
       THEN <<Tok("json_name", "name:", 8, j.v["name"].v)>> ELSE <<>>)
    \o (IF HasKey(j, "offers") /\ HasKey(j.v["offers"], "price")
           /\ j.v["offers"].v["price"].t = "str"
       THEN <<Tok("json_price", "price:", 9, j.v["offers"].v["price"].v)>> ELSE <<>>)
    \o (IF HasKey(j, "image") /\ j.v["image"].t = "str"
       THEN <<Tok("json_image", "image:", 9, j.v["image"].v)>> ELSE <<>>)
    \o (IF HasKey(j, "brand") /\ HasKey(j.v["brand"], "name")
           /\ j.v["brand"].v["name"].t = "str"
       THEN <<Tok("json_brand", "brand:{name:", 18, j.v["brand"].v["name"].v)>>
       ELSE IF HasKey(j, "brand") /\ j.v["brand"].t = "str"
       THEN <<Tok("loose_brand", "brand:", 9, j.v["brand"].v)>> ELSE <<>>)

RECURSIVE InnerOfList(_)
InnerOfList(l) ==
    IF l = <<>> THEN <<>> ELSE InnerOfDict(Head(l)) \o InnerOfList(Tail(l))

InnerOf(tk) ==
    IF tk.k # "ldjson" THEN <<tk>>
    ELSE IF ~tk.p.valid THEN <<>>
    ELSE IF tk.p.val.t = "dict" THEN InnerOfDict(tk.p.val)
    ELSE IF tk.p.val.t = "list" THEN InnerOfList(tk.p.val.v)
    ELSE <<>>

\* the text as the fallback patterns scan it
RECURSIVE Scanned(_)
Scanned(text) == IF text = <<>> THEN <<>> ELSE InnerOf(Head(text)) \o Scanned(Tail(text))

\* re.search(pattern, content): the first match of a pattern, None without one
FirstOfKind(text, kind) ==
    IF \E i \in 1..Len(text) : text[i].k = kind
      THEN text[CHOOSE i \in 1..Len(text) :
                  text[i].k = kind /\ \A j \in 1..(i - 1) : text[j].k # kind]
      ELSE None

\* re.findall(pattern, content): every match, in the order of the text
FindAll(text, kind) == SelectSeq(text, LAMBDA tk : tk.k = kind)

(***************************************************************************)
(* extract_product_details_from_content: the record and its passes.        *)
(***************************************************************************)
PlaceholderImage == S("https://via.placeholder.com/300x300?text=No+Image", 49)
Ellipsis         == <<Txt("...", 3)>>

\* DefaultDetails with the ellipsis appended whatever the length
DefaultDetails_AlwaysEllipsis(text, src) ==
    [name         |-> S("Unknown Product", 15),
     price        |-> S("Price not available", 19),
     currency     |-> S("USD", 3),
     imageUrl     |-> PlaceholderImage,
     description  |-> JStr(TakeChars(text, DefaultDescriptionLength) \o Ellipsis),
     supplier     |-> S("Unknown Supplier", 16),
     productUrl   |-> JStr(src),
     availability |-> S("Unknown", 7)]

\* lines 544-553
DefaultDetails(text, src) ==
    [name         |-> S("Unknown Product", 15),
     price        |-> S("Price not available", 19),
     currency     |-> S("USD", 3),
     imageUrl     |-> PlaceholderImage,
     description  |-> JStr(IF CharLen(text) > DefaultDescriptionLength
                             THEN TakeChars(text, DefaultDescriptionLength) \o Ellipsis
                             ELSE text),
     supplier     |-> S("Unknown Supplier", 16),
     productUrl   |-> JStr(src),
     availability |-> S("Unknown", 7)]

\* lines 556-562: the matches of the two JSON-LD patterns, pattern 1 first.
\* Pattern 2 matches from "@type" : "Product" to the next "}", inside a block
\* that says so.
SaysProduct(tk) ==
    /\ tk.p.valid
    /\ \/ HasKey(tk.p.val, "@type") /\ tk.p.val.v["@type"] = S("Product", 7)
       \/ tk.p.val.t = "list" /\ tk.p.val = JArray

JsonLdMatches(text) ==
    [i \in 1..Len(FindAll(text, "ldjson")) |->
        [pattern |-> 1, tk |-> FindAll(text, "ldjson")[i]]]
    \o
    [i \in 1..Len(SelectSeq(FindAll(text, "ldjson"), SaysProduct)) |->
        [pattern |-> 2, tk |-> SelectSeq(FindAll(text, "ldjson"), SaysProduct)[i]]]

\* line 565: json.loads raises JSONDecodeError; the text pattern 2 matches
\* starts with a string followed by more data, which never parses
JsonLoadsFails(m) == m.pattern = 2 \/ ~m.tk.p.valid

\* line 566
IsProduct(j) == HasKey(j, "@type") /\ j.v["@type"] = S("Product", 7)

\* str(value) inside an f-string
PyStr(j) == IF j.t \in {"str", "num"} THEN j.v ELSE <<Txt("repr", 4)>>

\* lines 568-569
LdName(d, j) == IF HasKey(j, "name") THEN [d EXCEPT !.name = j.v["name"]] ELSE d

\* lines 570-573
LdPrice(d, j) ==
    IF HasKey(j, "offers") /\ j.v["offers"].t = "dict"
       /\ HasKey(j.v["offers"], "price") /\ Truthy(j.v["offers"].v["price"])
      THEN [d EXCEPT !.price = JStr(<<Txt("$", 1)>> \o PyStr(j.v["offers"].v["price"]))]
      ELSE d

\* lines 574-579
LdImage(d, j) ==
    IF ~HasKey(j, "image") THEN d
    ELSE IF j.v["image"].t = "list" /\ j.v["image"].v # <<>>
      THEN [d EXCEPT !.imageUrl = j.v["image"].v[1]]
    ELSE IF j.v["image"].t = "str" THEN [d EXCEPT !.imageUrl = j.v["image"]]
    ELSE d

\* line 581: json_data["description"][:300] is a str or list slice, and
\* raises otherwise: a dict raises KeyError where slices are hashable
\* (Python 3.12 on) and TypeError where they are not
LdDescriptionExc(j, hashable) ==
    IF ~HasKey(j, "description") THEN NoException
    ELSE IF j.v["description"].t = "str" THEN NoException
    ELSE IF j.v["description"].t = "list" THEN NoException
    ELSE IF j.v["description"].t = "dict" /\ hashable THEN "KeyError"
    ELSE "TypeError"

\* lines 580-581
LdDescription(d, j) ==
    IF ~HasKey(j, "description") THEN d
    ELSE IF j.v["description"].t = "str"
      THEN [d EXCEPT !.description =
                JStr(TakeChars(j.v["description"].v, JsonLdDescriptionLength))]
    ELSE IF j.v["description"].t = "list"
      THEN [d EXCEPT !.description =
                JList(SubSeq(j.v["description"].v, 1,
                             IF Len(j.v["description"].v) < JsonLdDescriptionLength
                               THEN Len(j.v["description"].v)
                               ELSE JsonLdDescriptionLength))]
    ELSE d

\* lines 582-587
LdBrand(d, j) ==
    IF ~HasKey(j, "brand") THEN d
    ELSE IF j.v["brand"].t = "dict" /\ HasKey(j.v["brand"], "name")
      THEN [d EXCEPT !.supplier = j.v["brand"].v["name"]]
    ELSE IF j.v["brand"].t = "str" THEN [d EXCEPT !.supplier = j.v["brand"]]
    ELSE d

\* lines 568-581: details when line 581 is left, normally or not
LdUpToDescription(d, j) == LdDescription(LdImage(LdPrice(LdName(d, j), j), j), j)

\* lines 593-617: the patterns of each field, in the order they are tried
name_patterns         == <<"title", "json_name", "og_title", "h1">>
price_patterns        == <<"json_price", "currency_amount", "price_span">>
img_patterns          == <<"json_image", "og_image", "img_src", "data_src">>
supplier_patterns     == <<"json_brand", "meta_brand", "loose_brand">>
availability_patterns == <<"availability">>

\* str.isspace() of a run of text
IsBlank(tk) == tk \in {Blank, Newline}

\* line 594: group(1) of ([^<|]+?)(?:\s*[\|\-].*?)?</title>, the text before
\* the first "|" or "-" that is not its first character
TitleGroup(text) ==
    IF \E i \in 2..Len(text) : text[i] \in {Pipe, Hyphen}
      THEN SubSeq(text, 1, (CHOOSE i \in 2..Len(text) :
                               /\ text[i] \in {Pipe, Hyphen}
                               /\ \A j \in 2..(i - 1) : text[j] \notin {Pipe, Hyphen}) - 1)
      ELSE text

\* group(1) of the match of a name pattern
NameGroup(m) == IF m.k = "title" THEN TitleGroup(m.p) ELSE m.p

\* str.strip()
RECURSIVE Strip(_)
Strip(text) ==
    IF text = <<>> THEN <<>>
    ELSE IF IsBlank(Head(text)) THEN Strip(Tail(text))
    ELSE IF IsBlank(text[Len(text)]) THEN Strip(SubSeq(text, 1, Len(text) - 1))
    ELSE text

\* html.unescape()
Unescape(text) ==
    [i \in 1..Len(text) |-> IF text[i].s = "&amp;" THEN Txt("&", 1) ELSE text[i]]

\* line 623: n = html.unescape(m.group(1).strip())
NameOfMatch(m) == Unescape(Strip(NameGroup(m)))

\* lines 620-626: the first pattern whose match is longer than 3 characters
RECURSIVE ExtractName(_, _)
ExtractName(text, pats) ==
    IF pats = <<>> THEN None
    ELSE IF FirstOfKind(text, Head(pats)) # None
            /\ CharLen(NameOfMatch(FirstOfKind(text, Head(pats)))) > 3
      THEN JStr(NameOfMatch(FirstOfKind(text, Head(pats))))
    ELSE ExtractName(text, Tail(pats))

\* line 632: val = m.group(1).replace(",", "")
RemoveCommas(text) == SelectSeq(text, LAMBDA tk : tk.s # ",")
\* line 634: float(val) raises ValueError
FloatFails(val) == val = <<>> \/ val = <<Txt(".", 1)>>

\* lines 629-638: the first pattern whose match parses as a number
RECURSIVE ExtractPrice(_, _)
ExtractPrice(text, pats) ==
    IF pats = <<>> THEN None
    ELSE IF FirstOfKind(text, Head(pats)) # None
            /\ ~FloatFails(RemoveCommas(FirstOfKind(text, Head(pats)).p))
      THEN JStr(<<Txt("$", 1)>> \o RemoveCommas(FirstOfKind(text, Head(pats)).p))
    ELSE ExtractPrice(text, Tail(pats))

\* lines 641-644: the match of the first image pattern that matches
RECURSIVE FirstMatch(_, _)
FirstMatch(text, pats) ==
    IF pats = <<>> THEN None
    ELSE IF FirstOfKind(text, Head(pats)) # None THEN FirstOfKind(text, Head(pats))
    ELSE FirstMatch(text, Tail(pats))

\* str.lower() and str.title() of one word
LowerWord(s) == CASE s = "In" -> "in" [] s = "OUT" -> "out" [] OTHER -> s
TitleWord(s) ==
    CASE s = "in" -> "In" [] s = "stock" -> "Stock" [] s = "out" -> "Out" [] s = "of" -> "Of"
      [] s = "available" -> "Available" [] s = "pre" -> "Pre" [] s = "order" -> "Order"
      [] s = "backorder" -> "Backorder" [] OTHER -> s

\* line 669: m.group(1).lower()
Lower(text) == [i \in 1..Len(text) |-> Txt(LowerWord(text[i].s), text[i].n)]
\* line 676: text.title()
Title(text) == [i \in 1..Len(text) |-> Txt(TitleWord(text[i].s), text[i].n)]

\* `sub in text`
Contains(text, sub) ==
    \E i \in 0..(Len(text) - Len(sub)) : SubSeq(text, i + 1, i + Len(sub)) = sub

\* lines 669-676
CanonicalAvailability(group) ==
    LET text == Lower(group)
    IN  IF Contains(text, <<Txt("in", 2), Blank, Txt("stock", 5)>>) THEN S("In Stock", 8)
        ELSE IF Contains(text, <<Txt("out", 3), Blank, Txt("of", 2), Blank, Txt("stock", 5)>>)
          THEN S("Out of Stock", 12)
        ELSE JStr(Title(text))

(***************************************************************************)
(* extract_bn_product_details_from_content.  The page is what              *)
(* BeautifulSoup finds: the elements in div#productDetail-container, in    *)
(* document order, or no container; and the markup outside it, which only  *)
(* the author patterns read.  An element is a token: k tells which find()  *)
(* calls select it, p is its text or its URL.                              *)
(***************************************************************************)
Dollar == Txt("$", 1)

\* div#pdp-header-authors; p holds the value of input#author and the text of
\* the first link, each empty when missing
AuthorSection(s, n, value, link) == Tok("author_section", s, n, [input |-> value, link |-> link])

BnAuthorInput == AuthorSection("<div id=pdp-header-authors><input id=author value=Jane Roe>", 62,
                               <<Txt("Jane Roe", 8)>>, <<>>)
BnAuthorLink  == AuthorSection("<div id=pdp-header-authors><a>John Doe</a>", 46,
                               <<>>, <<Txt("John Doe", 8)>>)
\* outside any author section
BnInputTag    == Tok("author_input_tag", "<input id=author value=Ann Lee>", 34,
                     <<Txt("Ann Lee", 7)>>)
BnByLink      == Tok("by_link", "by <a href=/a>Sam Poe</a>", 27, <<Txt("Sam Poe", 7)>>)
BnH1Title     == Tok("h1_title", "<h1 class=pdp-title>Book</h1>", 31, <<Txt("Book", 4)>>)
BnH1Empty     == Tok("h1_title", "<h1 class=title></h1>", 23, <<>>)
BnH1Plain     == Tok("h1", "<h1>Other</h1>", 14, <<Txt("Other", 5)>>)
BnPriceSpan   == Tok("span_price", "<span class=price>$12.99</span>", 33,
                     <<Dollar, Txt("12.99", 5)>>)
BnPriceBare   == Tok("span_price", "<span class=price>12.99</span>", 32, <<Txt("12.99", 5)>>)
BnDollarText  == Tok("string", "$9.99", 5, <<Dollar, Txt("9.99", 4)>>)
BnDescLong    == Tok("div_overview", "<div class=overview>...</div>", 630,
                     <<Txt("overview text", 600)>>)
BnDescShort   == Tok("div_description", "<div class=description>aa</div>", 36,
                     <<Txt("too short", 9)>>)
BnImgMain     == Tok("img_main", "<img id=pdpMainImage src=//cdn.x/a.jpg>", 41, UrlProtoRel)
BnImgData     == Tok("img_product", "<img class=product src=data:...>", 34,
                     <<Txt("data:", 5), Txt("image/png;base64", 16)>>)
BnImgRoot     == Tok("img", "<img src=/img/a.jpg>", 22, UrlRootRel)
BnAvail       == Tok("span_availability", "<span class=availability>In Stock Online</span>",
                     49, <<Txt("In Stock Online", 15)>>)

BnElements ==
    {BnAuthorInput, BnAuthorLink, BnInputTag, BnByLink, BnH1Title, BnH1Empty, BnH1Plain,
     BnPriceSpan, BnPriceBare, BnDollarText, BnDescLong, BnDescShort,
     BnImgMain, BnImgData, BnImgRoot, BnAvail}

\* the markup outside the container
BnOutside == {<<>>, <<BnInputTag>>, <<BnByLink>>}

\* line 464 and line 465: the bounds of a description
BnDescriptionMin == 20
BnDescriptionMax == 500

\* lines 380-389
BnDefaults(src) ==
    [name         |-> S("Unknown Product", 15),
     price        |-> S("Price not available", 19),
     imageUrl     |-> PlaceholderImage,
     description  |-> S("No description available.", 25),
     supplier     |-> S("Barnes & Noble", 14),
     author       |-> S("Unknown Author", 14),
     availability |-> S("Unknown", 7),
     productUrl   |-> JStr(src)]

\* find(...) for one of several kinds: the first element, None without one
FirstOf(elems, kinds) ==
    IF \E i \in 1..Len(elems) : elems[i].k \in kinds
      THEN elems[CHOOSE i \in 1..Len(elems) :
                   elems[i].k \in kinds /\ \A j \in 1..(i - 1) : elems[j].k \notin kinds]
      ELSE None

\* the first candidate of a chain that passes the test, None without one
FirstAccepted(cands, Accept(_)) ==
    LET ok(i) == cands[i] # None /\ Accept(cands[i]) IN
    IF \E i \in 1..Len(cands) : ok(i)
      THEN cands[CHOOSE i \in 1..Len(cands) : ok(i) /\ \A j \in 1..(i - 1) : ~ok(j)]
      ELSE None

\* lines 404-419
BnAuthor(d, elems) ==
    LET sec == FirstOf(elems, {"author_section"}) IN
    IF sec = None THEN d
    ELSE IF sec.p.input # <<>> THEN [d EXCEPT !.author = JStr(sec.p.input)]
    ELSE IF sec.p.link # <<>> THEN [d EXCEPT !.author = JStr(sec.p.link)]
    ELSE d

\* lines 424-435
BnTitle(d, elems) ==
    LET cands == <<FirstOf(elems, {"h1_title"}), FirstOf(elems, {"h1_title", "h1"}),
                   FirstOf(elems, {"testid_title"}), FirstOf(elems, {"div_product_title"})>>
        hit   == FirstAccepted(cands, LAMBDA e : e.p # <<>>)
    IN  IF hit = None THEN d ELSE [d EXCEPT !.name = JStr(hit.p)]

HasDollar(text) == \E i \in 1..Len(text) : text[i] = Dollar

\* line 442: the first string of the container that holds a dollar amount
FirstDollarString(elems) ==
    IF \E i \in 1..Len(elems) : elems[i].k \in {"string", "span_price", "div_price"}
                                /\ HasDollar(elems[i].p)
      THEN elems[CHOOSE i \in 1..Len(elems) :
                   /\ elems[i].k \in {"string", "span_price", "div_price"}
                   /\ HasDollar(elems[i].p)
                   /\ \A j \in 1..(i - 1) :
                         ~(elems[j].k \in {"string", "span_price", "div_price"}
                           /\ HasDollar(elems[j].p))]
      ELSE None

\* lines 438-451
BnPrice(d, elems) ==
    LET cands == <<FirstOf(elems, {"testid_price"}), FirstOf(elems, {"span_price"}),
                   FirstOf(elems, {"div_price"}), FirstDollarString(elems)>>
        hit   == FirstAccepted(cands, LAMBDA e : HasDollar(e.p))
    IN  IF hit = None THEN d ELSE [d EXCEPT !.price = JStr(hit.p)]

\* lines 454-467: the loop goes on after a text of 20 characters or less
BnDescription(d, elems) ==
    LET cands == <<FirstOf(elems, {"div_overview"}), FirstOf(elems, {"div_description"}),
                   FirstOf(elems, {"div_summary"}), FirstOf(elems, {"testid_description"})>>
        hit   == FirstAccepted(cands, LAMBDA e : CharLen(e.p) > BnDescriptionMin)
    IN  IF hit = None THEN d
        ELSE [d EXCEPT !.description =
                 JStr(IF CharLen(hit.p) > BnDescriptionMax
                        THEN TakeChars(hit.p, BnDescriptionMax) \o Ellipsis
                        ELSE hit.p)]

ImgKinds == {"img_main", "img_product", "img_testid", "img_in_image_div", "img"}

\* lines 483-486
BnNormalizeImageUrl(img_url) ==
    IF StartsWithTwoSlashes(img_url) THEN <<Https>> \o img_url
    ELSE IF StartsWithSlash(img_url)
      THEN <<Https, Slashes, U("www.barnesandnoble.com", 22)>> \o img_url
    ELSE img_url

\* lines 470-490
BnImage(d, elems) ==
    LET cands == <<FirstOf(elems, {"img_main"}), FirstOf(elems, {"img_product"}),
                   FirstOf(elems, {"img_testid"}), FirstOf(elems, {"img_in_image_div"}),
                   FirstOf(elems, ImgKinds)>>
        hit   == FirstAccepted(cands, LAMBDA e : e.p # <<>> /\ e.p[1] # Txt("data:", 5))
    IN  IF hit = None THEN d
        ELSE [d EXCEPT !.imageUrl = JStr(BnNormalizeImageUrl(hit.p))]

\* lines 493-503
BnAvailability(d, elems) ==
    LET cands == <<FirstOf(elems, {"testid_availability"}),
                   FirstOf(elems, {"span_availability"}), FirstOf(elems, {"div_stock"})>>
        hit   == FirstAccepted(cands, LAMBDA e : e.p # <<>>)
    IN  IF hit = None THEN d ELSE [d EXCEPT !.availability = JStr(hit.p)]

\* the raw content as the author patterns of lines 513-516 read it: an author
\* section with an input holds the input tag
BnRaw(page) == page.outside \o page.container

author_patterns == <<{"author_input_tag"}, {"by_link"}>>

\* lines 512-523
BnAuthorRegex(d, raw) ==
    IF d.author # S("Unknown Author", 14) THEN d
    ELSE IF FirstOf(raw, author_patterns[1]) # None
      THEN [d EXCEPT !.author = JStr(FirstOf(raw, author_patterns[1]).p)]
    ELSE IF FirstOf(raw, author_patterns[2]) # None
      THEN [d EXCEPT !.author = JStr(FirstOf(raw, author_patterns[2]).p)]
    ELSE d

(***************************************************************************)
(* State.                                                                  *)
(***************************************************************************)
VARIABLES
    resp,                   \* the service's response to the POST of line 241
    ask_pc,                 \* where ask_with_json_schema is
    answer,                 \* the stripped answer text
    citations,
    pos,                    \* the offset cursor
    structured_data_list,   \* the decoded values, in decode order
    all_products,
    summaries,
    final_structured_data,
    ask_return,             \* the value returned to the caller
    ask_exc                 \* the exception that left the call, if any

askVars == <<resp, ask_pc, answer, citations, pos, structured_data_list,
             all_products, summaries, final_structured_data, ask_return, ask_exc>>

VARIABLES
    content,                \* the HTML text given to the extractor
    source_url,
    slices_hashable,        \* the interpreter hashes slices (Python 3.12 on)
    ext_pc,                 \* where extract_product_details_from_content is
    ld_matches,             \* the JSON-LD matches still to be tried
    details,
    ext_return,             \* the value returned to the caller
    ext_exc                 \* the exception that left the call, if any

extVars == <<content, source_url, slices_hashable, ext_pc, ld_matches, details,
             ext_return, ext_exc>>

VARIABLES
    bn_page,                \* the page given to the Barnes & Noble extractor
    bn_source_url,
    bs4_installed,          \* the import of line 376 finds BeautifulSoup
    bn_pc,                  \* where extract_bn_product_details_from_content is
    product_details,
    bn_return               \* the value returned to the caller

bnVars == <<bn_page, bn_source_url, bs4_installed, bn_pc, product_details, bn_return>>

VARIABLES
    h_handler,              \* the request handler that runs
    h_body,                 \* request.get_json()
    supabase,               \* the persistence client of lines 47-55 is set
    env,                    \* what each outbound call of this request meets
    h_pc,
    calls,                  \* the calls the handler has made, in order
    result,                 \* index_url: the result of upload_from_url
    extracted_details,      \* index_url
    store,                  \* the products table, by nuclia_document_id
    response,               \* the response of the handler
    h_exc                   \* the exception that left the handler, if any

hVars == <<h_handler, h_body, supabase, env, h_pc, calls, result, extracted_details,
           store, response, h_exc>>

VARIABLES
    gw_op,                  \* the gateway operation that runs
    gw_http,                \* what its HTTP call meets
    gw_pc,
    gw_return,
    gw_exc,
    gw_requests             \* the HTTP requests it has issued

gwVars == <<gw_op, gw_http, gw_pc, gw_return, gw_exc, gw_requests>>

appVars == <<hVars, gwVars>>

vars == <<askVars, extVars, bnVars, appVars>>

\* no request handler is running
HandlerIdle ==
    /\ h_handler = "none"
    /\ h_body = None
    /\ supabase = FALSE
    /\ env = <<>>
    /\ h_pc = "idle"
    /\ calls = <<>>
    /\ result = None
    /\ extracted_details = <<>>
    /\ store = <<>>
    /\ response = None
    /\ h_exc = NoException

\* no gateway operation is running
GatewayIdle ==
    /\ gw_op = "none"
    /\ gw_http = "none"
    /\ gw_pc = "idle"
    /\ gw_return = None
    /\ gw_exc = NoException
    /\ gw_requests = <<>>

AppIdle == HandlerIdle /\ GatewayIdle

\* extract_bn_product_details_from_content is not running
BnIdle ==
    /\ bn_page = [has_container |-> FALSE, container |-> <<>>, outside |-> <<>>]
    /\ bn_source_url = <<>>
    /\ bs4_installed = TRUE
    /\ bn_pc = "idle"
    /\ product_details = BnDefaults(<<>>)
    /\ bn_return = None

\* ask_with_json_schema is not running
AskIdle ==
    /\ resp = [status |-> "error", answer |-> <<>>, citations |-> <<>>]
    /\ ask_pc = "idle"
    /\ answer = <<>>
    /\ citations = <<>>
    /\ pos = 0
    /\ structured_data_list = <<>>
    /\ all_products = <<>>
    /\ summaries = <<>>
    /\ final_structured_data = [products |-> <<>>, summary |-> <<>>]
    /\ ask_return = None
    /\ ask_exc = NoException

\* extract_product_details_from_content is not running
ExtIdle ==
    /\ content = <<>>
    /\ source_url = <<>>
    /\ slices_hashable = FALSE
    /\ ext_pc = "idle"
    /\ ld_matches = <<>>
    /\ details = DefaultDetails(<<>>, <<>>)
    /\ ext_return = None
    /\ ext_exc = NoException

InitAsk ==
    /\ resp \in [status : {"ok", "error"},
                 answer : SeqsUpTo(Chunks, MaxChunks),
                 citations : Citations]
    /\ resp.status = "error" => (resp.answer = <<>> /\ resp.citations = <<>>)
    /\ ask_pc = "start"
    /\ answer = <<>>
    /\ citations = <<>>
    /\ pos = 0
    /\ structured_data_list = <<>>
    /\ all_products = <<>>
    /\ summaries = <<>>
    /\ final_structured_data = [products |-> <<>>, summary |-> <<>>]
    /\ ask_return = None
    /\ ask_exc = NoException
    /\ ExtIdle
    /\ BnIdle
    /\ AppIdle

\* lines 240-254 and 302-303: the POST, the answer and the citations
AskRequest ==
    /\ ask_pc = "start"
    /\ IF resp.status = "error"
         THEN /\ ask_return' = [success |-> FALSE, error |-> "RequestException"]
              /\ ask_pc' = "done"
              /\ UNCHANGED <<answer, citations>>
         ELSE /\ answer' = LStrip(Flatten(resp.answer))
              /\ citations' = resp.citations
              /\ ask_pc' = "loop"
              /\ UNCHANGED ask_return
    /\ UNCHANGED <<resp, pos, structured_data_list, all_products, summaries,
                   final_structured_data, ask_exc>>
    /\ UNCHANGED <<extVars, bnVars, appVars>>

\* lines 257-269: one iteration of the decode loop
DecodeStep ==
    /\ ask_pc = "loop"
    /\ pos < Len(answer)
    /\ LET r == RawDecode(From(answer, pos)) IN
         IF r.ok
           THEN /\ structured_data_list' = Append(structured_data_list, r.obj)
                /\ pos' = SkipSpace(answer, pos + r.end)
                /\ UNCHANGED ask_pc
           ELSE /\ ask_pc' = "merge"
                /\ UNCHANGED <<structured_data_list, pos>>
    /\ UNCHANGED <<resp, answer, citations, all_products, summaries,
                   final_structured_data, ask_return, ask_exc>>
    /\ UNCHANGED <<extVars, bnVars, appVars>>

\* line 257: the loop ends at the end of the text
DecodeEnd ==
    /\ ask_pc = "loop"
    /\ pos >= Len(answer)
    /\ ask_pc' = "merge"
    /\ UNCHANGED <<resp, answer, citations, pos, structured_data_list, all_products,
                   summaries, final_structured_data, ask_return, ask_exc>>
    /\ UNCHANGED <<extVars, bnVars, appVars>>

\* lines 272-289: the decoded values merged into one structure
Merge ==
    /\ ask_pc = "merge"
    /\ all_products' = CollectProducts(structured_data_list)
    /\ summaries' = CollectSummaries(structured_data_list)
    /\ IF JoinRaises(summaries')
         THEN \* line 289 raises; no handler of the function catches TypeError
              /\ final_structured_data' = [products |-> all_products', summary |-> <<>>]
              /\ ask_exc' = "TypeError"
              /\ ask_pc' = "raised"
         ELSE /\ final_structured_data' =
                    [products |-> all_products', summary |-> Join(summaries')]
              /\ ask_pc' = "return"
              /\ UNCHANGED ask_exc
    /\ UNCHANGED <<resp, answer, citations, pos, structured_data_list, ask_return>>
    /\ UNCHANGED <<extVars, bnVars, appVars>>

\* lines 291-300
AskReturn ==
    /\ ask_pc = "return"
    /\ ask_return' = [success |-> TRUE,
                      answer |-> answer,
                      structured_data |-> IF final_structured_data.products # <<>>
                                            THEN final_structured_data ELSE None,
                      citations |-> citations]
    /\ ask_pc' = "done"
    /\ UNCHANGED <<resp, answer, citations, pos, structured_data_list, all_products,
                   summaries, final_structured_data, ask_exc>>
    /\ UNCHANGED <<extVars, bnVars, appVars>>

NextAsk == AskRequest \/ DecodeStep \/ DecodeEnd \/ Merge \/ AskReturn

SpecAsk == InitAsk /\ [][NextAsk]_vars

\* the call runs in one thread: a step that can be taken is taken
SpecAskFair == InitAsk /\ [][NextAsk]_vars /\ WF_vars(NextAsk)


(***************************************************************************)
(* extract_product_details_from_content, one pass per step.                *)
(***************************************************************************)
\* the texts given to the extractor
MaxTokens == 2

InitExt ==
    /\ content \in SeqsUpTo(ContentTokens, MaxTokens)
    /\ source_url \in SourceUrls
    /\ slices_hashable \in BOOLEAN
    /\ ext_pc = "start"
    /\ ld_matches = <<>>
    /\ details = DefaultDetails(<<>>, <<>>)
    /\ ext_return = None
    /\ ext_exc = NoException
    /\ AskIdle
    /\ BnIdle
    /\ AppIdle

\* lines 544-562
ExtStart ==
    /\ ext_pc = "start"
    /\ details' = DefaultDetails(content, source_url)
    /\ ld_matches' = JsonLdMatches(content)
    /\ ext_pc' = "jsonld"
    /\ UNCHANGED <<content, source_url, slices_hashable, ext_return, ext_exc>>
    /\ UNCHANGED <<askVars, bnVars, appVars>>

\* lines 563-590: one match of a JSON-LD pattern
JsonLdStep ==
    /\ ext_pc = "jsonld"
    /\ ld_matches # <<>>
    /\ LET m == Head(ld_matches)
           j == m.tk.p.val
       IN  IF JsonLoadsFails(m) \/ ~IsProduct(j)
             THEN \* except JSONDecodeError: continue, or the test of line 566 fails
                  /\ ld_matches' = Tail(ld_matches)
                  /\ UNCHANGED <<details, ext_pc, ext_return, ext_exc>>
           ELSE IF LdDescriptionExc(j, slices_hashable) = "KeyError"
             THEN \* except KeyError: continue, with what lines 568-579 have set
                  /\ details' = LdUpToDescription(details, j)
                  /\ ld_matches' = Tail(ld_matches)
                  /\ UNCHANGED <<ext_pc, ext_return, ext_exc>>
           ELSE IF LdDescriptionExc(j, slices_hashable) = "TypeError"
             THEN \* no handler for TypeError: it leaves the function
                  /\ details' = LdUpToDescription(details, j)
                  /\ ext_exc' = "TypeError"
                  /\ ext_pc' = "raised"
                  /\ UNCHANGED <<ld_matches, ext_return>>
           ELSE \* line 588: return details
                  /\ details' = LdBrand(LdUpToDescription(details, j), j)
                  /\ ext_return' = details'
                  /\ ext_pc' = "done"
                  /\ UNCHANGED <<ld_matches, ext_exc>>
    /\ UNCHANGED <<content, source_url, slices_hashable>>
    /\ UNCHANGED <<askVars, bnVars, appVars>>

\* line 561-563: no match is left
JsonLdEnd ==
    /\ ext_pc = "jsonld"
    /\ ld_matches = <<>>
    /\ ext_pc' = "name"
    /\ UNCHANGED <<content, source_url, slices_hashable, ld_matches, details,
                   ext_return, ext_exc>>
    /\ UNCHANGED <<askVars, bnVars, appVars>>

\* lines 620-626
FallbackName ==
    /\ ext_pc = "name"
    /\ details' = IF ExtractName(Scanned(content), name_patterns) # None
                    THEN [details EXCEPT !.name = ExtractName(Scanned(content), name_patterns)]
                    ELSE details
    /\ ext_pc' = "price"
    /\ UNCHANGED <<content, source_url, slices_hashable, ld_matches, ext_return, ext_exc>>
    /\ UNCHANGED <<askVars, bnVars, appVars>>

\* lines 629-638
FallbackPrice ==
    /\ ext_pc = "price"
    /\ details' = IF ExtractPrice(Scanned(content), price_patterns) # None
                    THEN [details EXCEPT !.price = ExtractPrice(Scanned(content), price_patterns)]
                    ELSE details
    /\ ext_pc' = "image"
    /\ UNCHANGED <<content, source_url, slices_hashable, ld_matches, ext_return, ext_exc>>
    /\ UNCHANGED <<askVars, bnVars, appVars>>

\* lines 641-657
FallbackImage ==
    /\ ext_pc = "image"
    /\ details' = IF FirstMatch(Scanned(content), img_patterns) # None
                    THEN [details EXCEPT !.imageUrl =
                            JStr(NormalizeImageUrl(FirstMatch(Scanned(content), img_patterns).p,
                                                   source_url))]
                    ELSE details
    /\ ext_pc' = "supplier"
    /\ UNCHANGED <<content, source_url, slices_hashable, ld_matches, ext_return, ext_exc>>
    /\ UNCHANGED <<askVars, bnVars, appVars>>

\* lines 660-664
FallbackSupplier ==
    /\ ext_pc = "supplier"
    /\ details' = IF FirstMatch(Scanned(content), supplier_patterns) # None
                    THEN [details EXCEPT !.supplier =
                            JStr(FirstMatch(Scanned(content), supplier_patterns).p)]
                    ELSE details
    /\ ext_pc' = "availability"
    /\ UNCHANGED <<content, source_url, slices_hashable, ld_matches, ext_return, ext_exc>>
    /\ UNCHANGED <<askVars, bnVars, appVars>>

\* lines 667-677
FallbackAvailability ==
    /\ ext_pc = "availability"
    /\ details' = IF FirstMatch(Scanned(content), availability_patterns) # None
                    THEN [details EXCEPT !.availability =
                            CanonicalAvailability(
                                FirstMatch(Scanned(content), availability_patterns).p)]
                    ELSE details
    /\ ext_pc' = "return"
    /\ UNCHANGED <<content, source_url, slices_hashable, ld_matches, ext_return, ext_exc>>
    /\ UNCHANGED <<askVars, bnVars, appVars>>

\* line 679
ExtReturn ==
    /\ ext_pc = "return"
    /\ ext_return' = details
    /\ ext_pc' = "done"
    /\ UNCHANGED <<content, source_url, slices_hashable, ld_matches, details, ext_exc>>
    /\ UNCHANGED <<askVars, bnVars, appVars>>

NextExt ==
    \/ ExtStart \/ JsonLdStep \/ JsonLdEnd
    \/ FallbackName \/ FallbackPrice \/ FallbackImage
    \/ FallbackSupplier \/ FallbackAvailability \/ ExtReturn

SpecExt == InitExt /\ [][NextExt]_vars

\* the same function on the contents the fallback patterns are about
InitFallback ==
    /\ content \in SeqsUpTo(FallbackTokens, MaxTokens)
    /\ source_url \in {UrlShopHttps}
    /\ slices_hashable \in BOOLEAN
    /\ ext_pc = "start"
    /\ ld_matches = <<>>
    /\ details = DefaultDetails(<<>>, <<>>)
    /\ ext_return = None
    /\ ext_exc = NoException
    /\ AskIdle
    /\ BnIdle
    /\ AppIdle

SpecFallback == InitFallback /\ [][NextExt]_vars

(***************************************************************************)
(* extract_bn_product_details_from_content, one field per step.            *)
(***************************************************************************)
\* the elements of a container
MaxBnElems == 2

\* has_container: soup.find('div', id='productDetail-container') finds one
BnPages ==
    {page \in [has_container : BOOLEAN,
               container : SeqsUpTo(BnElements, MaxBnElems),
               outside : BnOutside] :
        ~page.has_container => page.container = <<>>}

InitBn ==
    /\ bn_page \in BnPages
    /\ bn_source_url \in SourceUrls
    /\ bs4_installed \in BOOLEAN
    /\ bn_pc = "start"
    /\ product_details = BnDefaults(<<>>)
    /\ bn_return = None
    /\ AskIdle
    /\ ExtIdle
    /\ AppIdle

\* BnStart going on to the author patterns when the page has no container
BnStart_FallsToAuthorRegex ==
    /\ bn_pc = "start"
    /\ product_details' = BnDefaults(bn_source_url)
    /\ IF ~bs4_installed
         THEN /\ bn_return' = product_details'
              /\ bn_pc' = "done"
         ELSE /\ bn_pc' = IF bn_page.has_container THEN "author" ELSE "author_regex"
              /\ UNCHANGED bn_return
    /\ UNCHANGED <<bn_page, bn_source_url, bs4_installed>>
    /\ UNCHANGED <<askVars, extVars, appVars>>

\* lines 376-399 and 505-507: the defaults; they are returned when the import
\* fails or the page has no container
BnStart ==
    /\ bn_pc = "start"
    /\ product_details' = BnDefaults(bn_source_url)
    /\ IF ~bs4_installed \/ ~bn_page.has_container
         THEN /\ bn_return' = product_details'
              /\ bn_pc' = "done"
         ELSE /\ bn_pc' = "author"
              /\ UNCHANGED bn_return
    /\ UNCHANGED <<bn_page, bn_source_url, bs4_installed>>
    /\ UNCHANGED <<askVars, extVars, appVars>>

\* lines 404-421
BnAuthorStep ==
    /\ bn_pc = "author"
    /\ product_details' = BnAuthor(product_details, bn_page.container)
    /\ bn_pc' = "title"
    /\ UNCHANGED <<bn_page, bn_source_url, bs4_installed, bn_return>>
    /\ UNCHANGED <<askVars, extVars, appVars>>

\* lines 424-435
BnTitleStep ==
    /\ bn_pc = "title"
    /\ product_details' = BnTitle(product_details, bn_page.container)
    /\ bn_pc' = "price"
    /\ UNCHANGED <<bn_page, bn_source_url, bs4_installed, bn_return>>
    /\ UNCHANGED <<askVars, extVars, appVars>>

\* lines 438-451
BnPriceStep ==
    /\ bn_pc = "price"
    /\ product_details' = BnPrice(product_details, bn_page.container)
    /\ bn_pc' = "description"
    /\ UNCHANGED <<bn_page, bn_source_url, bs4_installed, bn_return>>
    /\ UNCHANGED <<askVars, extVars, appVars>>

\* lines 454-467
BnDescriptionStep ==
    /\ bn_pc = "description"
    /\ product_details' = BnDescription(product_details, bn_page.container)
    /\ bn_pc' = "image"
    /\ UNCHANGED <<bn_page, bn_source_url, bs4_installed, bn_return>>
    /\ UNCHANGED <<askVars, extVars, appVars>>

\* lines 470-490
BnImageStep ==
    /\ bn_pc = "image"
    /\ product_details' = BnImage(product_details, bn_page.container)
    /\ bn_pc' = "availability"
    /\ UNCHANGED <<bn_page, bn_source_url, bs4_installed, bn_return>>
    /\ UNCHANGED <<askVars, extVars, appVars>>

\* lines 493-503
BnAvailabilityStep ==
    /\ bn_pc = "availability"
    /\ product_details' = BnAvailability(product_details, bn_page.container)
    /\ bn_pc' = "author_regex"
    /\ UNCHANGED <<bn_page, bn_source_url, bs4_installed, bn_return>>
    /\ UNCHANGED <<askVars, extVars, appVars>>

\* lines 512-523
BnAuthorRegexStep ==
    /\ bn_pc = "author_regex"
    /\ product_details' = BnAuthorRegex(product_details, BnRaw(bn_page))
    /\ bn_pc' = "return"
    /\ UNCHANGED <<bn_page, bn_source_url, bs4_installed, bn_return>>
    /\ UNCHANGED <<askVars, extVars, appVars>>

\* lines 525-530
BnReturn ==
    /\ bn_pc = "return"
    /\ bn_return' = product_details
    /\ bn_pc' = "done"
    /\ UNCHANGED <<bn_page, bn_source_url, bs4_installed, product_details>>
    /\ UNCHANGED <<askVars, extVars, appVars>>

NextBn ==
    \/ BnStart \/ BnAuthorStep \/ BnTitleStep \/ BnPriceStep \/ BnDescriptionStep
    \/ BnImageStep \/ BnAvailabilityStep \/ BnAuthorRegexStep \/ BnReturn

SpecBn == InitBn /\ [][NextBn]_vars

\* a call of either extractor
InitExtractors == InitExt \/ InitBn

NextExtractors ==
    \/ ExtStart \/ JsonLdStep \/ JsonLdEnd
    \/ FallbackName \/ FallbackPrice \/ FallbackImage
    \/ FallbackSupplier \/ FallbackAvailability \/ ExtReturn
    \/ BnStart \/ BnAuthorStep \/ BnTitleStep \/ BnPriceStep \/ BnDescriptionStep
    \/ BnImageStep \/ BnAvailabilityStep \/ BnAuthorRegexStep \/ BnReturn

SpecExtractors == InitExtractors /\ [][NextExtractors]_vars

(***************************************************************************)
(* The request handlers of app.py.  env holds what each outbound call of   *)
(* the request meets; calls records the calls made.                        *)
(***************************************************************************)
JTrue == [t |-> "bool", v |-> <<Txt("true", 4)>>]

\* d.get(key, default)
Get(d, key, default) == IF key \in DOMAIN d.v THEN d.v[key] ELSE default

\* the URLs a request names
UrlBn         == <<Https, Slashes, U("www.barnesandnoble.com", 22), Slash, U("w/", 2), U("book", 4)>>
UrlBnUpper    == <<Https, Slashes, U("WWW.BarnesAndNoble.COM", 22), Slash, U("w/", 2), U("book", 4)>>
UrlRefersToBn == <<Https, Slashes, U("shop.com", 8), Slash, U("?ref=barnesandnoble.com", 23)>>
RequestUrls   == {UrlBn, UrlBnUpper, UrlRefersToBn, UrlShopHttps}

IndexBodies ==
    {None, JDict(<<>>), JDict([url |-> JStr(<<>>)])}
    \cup {JDict([url |-> JStr(u)]) : u \in RequestUrls}
    \cup {JDict([url |-> JStr(UrlBn), is_product_page |-> JTrue])}

\* the resource get_resource_by_id is given
Usermetadata(fields) == JDict([title |-> S("t", 1), usermetadata |-> JDict([fields |-> fields])])
ResPlain     == JDict([title |-> S("t", 1)])
ResFields    == Usermetadata(JDict([name |-> JDict([value |-> S("Lamp", 4)]),
                                    imageUrl |-> JDict([value |-> JStr(UrlAbsHttps)])]))
ResRawField  == Usermetadata(JDict([name |-> S("raw", 3)]))
ResNullValue == Usermetadata(JDict([name |-> JDict([value |-> JNull])]))
ResOddFields == Usermetadata(JList(<<>>))
ResList      == JList(<<>>)
Resources    == {ResPlain, ResFields, ResRawField, ResNullValue, ResOddFields, ResList}

IndexEnvs ==
    [upload   : {"ok", "no_uuid", "request_exception", "not_a_dict"},
     fetch    : {"ok", "request_exception"},
     resource : Resources,
     upsert   : {"ok", "exception"}]

DocumentId == S("doc1", 4)

\* a row the table holds before the request
OldRow ==
    [nuclia_document_id |-> DocumentId, name |-> S("Old", 3),
     price_text |-> S("$1", 2), image_url |-> JStr(<<>>), description |-> JStr(<<>>),
     supplier |-> S("Old Supplier", 12), availability |-> S("Unknown", 7),
     product_url |-> JStr(UrlShopHttps), last_updated |-> S("before", 26),
     product_type |-> S("generic", 7), has_metadata |-> FALSE]

\* indexing.py lines 339-359
FlattenUsermetadata(nuclia_metadata) ==
    IF ~Truthy(nuclia_metadata) \/ nuclia_metadata.t # "dict" THEN <<>>
    ELSE LET fields == Get(nuclia_metadata, "fields", JDict(<<>>)) IN
         IF fields.t # "dict" THEN <<>>
         ELSE [key \in DOMAIN fields.v |->
                  IF HasKey(fields.v[key], "value")
                    THEN fields.v[key].v["value"]
                    ELSE JStr(PyStr(fields.v[key]))]

\* dict.setdefault(key, value)
SetDefault(d, key, value) == IF key \in DOMAIN d THEN d ELSE (key :> value) @@ d

\* lines 211-216
WithDefaults(d) ==
    SetDefault(SetDefault(SetDefault(SetDefault(SetDefault(SetDefault(d,
        "name", S("Unknown Product", 15)),
        "price", S("Price not available", 19)),
        "imageUrl", JStr(<<>>)),
        "description", JStr(<<>>)),
        "supplier", S("Unknown Supplier", 16)),
        "availability", S("Unknown", 7))

\* ProductData keyed by the URL of the request
ProductData_KeyedByUrl(document_id, d, url, is_product_page) ==
    [nuclia_document_id |-> url,
     name               |-> d["name"],
     price_text         |-> d["price"],
     image_url          |-> d["imageUrl"],
     description        |-> d["description"],
     supplier           |-> d["supplier"],
     availability       |-> d["availability"],
     product_url        |-> url,
     last_updated       |-> S("now", 26),
     product_type       |-> IF Truthy(is_product_page) THEN S("product", 7)
                                                       ELSE S("generic", 7),
     has_metadata       |-> Truthy(d["imageUrl"])]

\* lines 218-230
ProductData(document_id, d, url, is_product_page) ==
    [nuclia_document_id |-> document_id,
     name               |-> d["name"],
     price_text         |-> d["price"],
     image_url          |-> d["imageUrl"],
     description        |-> d["description"],
     supplier           |-> d["supplier"],
     availability       |-> d["availability"],
     product_url        |-> url,
     last_updated       |-> S("now", 26),
     product_type       |-> IF Truthy(is_product_page) THEN S("product", 7)
                                                       ELSE S("generic", 7),
     has_metadata       |-> Truthy(d["imageUrl"])]

\* upsert(product_data, on_conflict="nuclia_document_id")
Upsert(table, row) ==
    {r \in table : r.nuclia_document_id # row.nuclia_document_id} \cup {row}

\* indexing.py lines 60-69 and 166-167: the result of a failed call
FailureResult == [success |-> FALSE, error |-> <<Txt("str(e)", 20)>>]

\* jsonify(body), status
Respond(status, body) == [status |-> status, body |-> body]
InternalServerError ==
    Respond(500, [success |-> FALSE, error |-> <<Txt("Internal server error: ", 23)>>])

InitIndex ==
    /\ h_handler = "index_url"
    /\ h_body \in IndexBodies
    /\ supabase \in BOOLEAN
    /\ env \in IndexEnvs
    /\ h_pc = "start"
    /\ calls = <<>>
    /\ result = None
    /\ extracted_details = <<>>
    /\ store \in {{}, {OldRow}}
    /\ response = None
    /\ h_exc = NoException
    /\ GatewayIdle
    /\ AskIdle
    /\ ExtIdle
    /\ BnIdle

\* IndexStart without the test of line 180
IndexStart_NoUrlTest ==
    /\ h_handler = "index_url"
    /\ h_pc = "start"
    /\ IF h_body = None
         THEN /\ h_exc' = "AttributeError"
              /\ h_pc' = "raised"
         ELSE /\ h_pc' = "upload"
              /\ UNCHANGED h_exc
    /\ UNCHANGED <<h_handler, h_body, supabase, env, calls, result, extracted_details,
                   store, response>>
    /\ UNCHANGED <<askVars, extVars, bnVars, gwVars>>

\* lines 177-181
IndexStart ==
    /\ h_handler = "index_url"
    /\ h_pc = "start"
    /\ IF h_body = None
         THEN \* data.get on None, outside the try of line 183
              /\ h_exc' = "AttributeError"
              /\ h_pc' = "raised"
              /\ UNCHANGED response
         ELSE IF ~Truthy(Get(h_body, "url", None))
         THEN /\ response' = Respond(400, [success |-> FALSE,
                                           error |-> <<Txt("URL is required", 15)>>])
              /\ h_pc' = "done"
              /\ UNCHANGED h_exc
         ELSE /\ h_pc' = "upload"
              /\ UNCHANGED <<response, h_exc>>
    /\ UNCHANGED <<h_handler, h_body, supabase, env, calls, result, extracted_details,
                   store>>
    /\ UNCHANGED <<askVars, extVars, bnVars, gwVars>>

\* IndexUpload issuing the call a second time after a failed one
IndexUpload_RetriesOnce ==
    /\ h_handler = "index_url"
    /\ h_pc = "upload"
    /\ calls' = Append(calls, "upload_from_url")
    /\ CASE env.upload = "request_exception" /\ calls = <<>> ->
              /\ UNCHANGED <<result, response, h_pc>>
         [] env.upload = "request_exception" /\ calls # <<>> ->
              /\ result' = FailureResult
              /\ response' = Respond(500, result')
              /\ h_pc' = "done"
         [] env.upload = "not_a_dict" ->
              /\ response' = InternalServerError
              /\ h_pc' = "done"
              /\ UNCHANGED result
         [] env.upload = "no_uuid" ->
              /\ result' = [success |-> TRUE, document_id |-> JStr(<<>>)]
              /\ response' = Respond(500, [success |-> FALSE,
                      error |-> <<Txt("Failed to get document_id from Nuclia", 37)>>])
              /\ h_pc' = "done"
         [] env.upload = "ok" ->
              /\ result' = [success |-> TRUE, document_id |-> DocumentId]
              /\ h_pc' = "fetch"
              /\ UNCHANGED response
    /\ UNCHANGED <<h_handler, h_body, supabase, env, extracted_details, store, h_exc>>
    /\ UNCHANGED <<askVars, extVars, bnVars, gwVars>>

\* lines 184-192: upload_from_url
IndexUpload ==
    /\ h_handler = "index_url"
    /\ h_pc = "upload"
    /\ calls' = Append(calls, "upload_from_url")
    /\ CASE env.upload = "request_exception" ->
              /\ result' = FailureResult
              /\ response' = Respond(500, result')
              /\ h_pc' = "done"
         [] env.upload = "not_a_dict" ->
              \* result.get of indexing.py line 162 raises; line 240 catches it
              /\ response' = InternalServerError
              /\ h_pc' = "done"
              /\ UNCHANGED result
         [] env.upload = "no_uuid" ->
              /\ result' = [success |-> TRUE, document_id |-> JStr(<<>>)]
              /\ response' = Respond(500, [success |-> FALSE,
                      error |-> <<Txt("Failed to get document_id from Nuclia", 37)>>])
              /\ h_pc' = "done"
         [] env.upload = "ok" ->
              /\ result' = [success |-> TRUE, document_id |-> DocumentId]
              /\ h_pc' = "fetch"
              /\ UNCHANGED response
    /\ UNCHANGED <<h_handler, h_body, supabase, env, extracted_details, store, h_exc>>
    /\ UNCHANGED <<askVars, extVars, bnVars, gwVars>>

\* IndexFetch ending the request when get_resource_by_id fails
IndexFetch_FailureEnds ==
    /\ h_handler = "index_url"
    /\ h_pc = "fetch"
    /\ calls' = Append(calls, "get_resource_by_id")
    /\ IF env.fetch = "request_exception" \/ env.resource.t # "dict"
         THEN /\ response' = InternalServerError
              /\ h_pc' = "done"
              /\ UNCHANGED extracted_details
         ELSE /\ extracted_details' =
                    FlattenUsermetadata(Get(env.resource, "usermetadata", JDict(<<>>)))
              /\ h_pc' = "store"
              /\ UNCHANGED response
    /\ UNCHANGED <<h_handler, h_body, supabase, env, result, store, h_exc>>
    /\ UNCHANGED <<askVars, extVars, bnVars, gwVars>>

\* lines 194-206: get_resource_by_id and the flattened metadata
IndexFetch ==
    /\ h_handler = "index_url"
    /\ h_pc = "fetch"
    /\ calls' = Append(calls, "get_resource_by_id")
    /\ IF env.fetch = "request_exception"
         THEN \* line 206: a warning, and the request goes on
              /\ extracted_details' = <<>>
              /\ h_pc' = "store"
              /\ UNCHANGED response
         ELSE IF env.resource.t # "dict"
         THEN \* resource_data.get of line 200 raises; line 240 catches it
              /\ response' = InternalServerError
              /\ h_pc' = "done"
              /\ UNCHANGED extracted_details
         ELSE /\ extracted_details' =
                    FlattenUsermetadata(Get(env.resource, "usermetadata", JDict(<<>>)))
              /\ h_pc' = "store"
              /\ UNCHANGED response
    /\ UNCHANGED <<h_handler, h_body, supabase, env, result, store, h_exc>>
    /\ UNCHANGED <<askVars, extVars, bnVars, gwVars>>

\* lines 208-238: the upsert and the response
IndexStore ==
    /\ h_handler = "index_url"
    /\ h_pc = "store"
    /\ IF supabase
         THEN /\ extracted_details' = WithDefaults(extracted_details)
              /\ calls' = Append(calls, "upsert")
              /\ IF env.upsert = "exception"
                   THEN /\ response' = InternalServerError
                        /\ UNCHANGED <<result, store>>
                   ELSE /\ store' = Upsert(store,
                                ProductData(result.document_id, extracted_details',
                                            Get(h_body, "url", None),
                                            Get(h_body, "is_product_page", None)))
                        /\ result' = [success |-> TRUE, document_id |-> result.document_id,
                                      supabase_success |-> TRUE]
                        /\ response' = Respond(200, result')
         ELSE /\ result' = [success |-> TRUE, document_id |-> result.document_id,
                            supabase_success |-> FALSE]
              /\ response' = Respond(200, result')
              /\ UNCHANGED <<extracted_details, calls, store>>
    /\ h_pc' = "done"
    /\ UNCHANGED <<h_handler, h_body, supabase, env, h_exc>>
    /\ UNCHANGED <<askVars, extVars, bnVars, gwVars>>

NextIndex == IndexStart \/ IndexUpload \/ IndexFetch \/ IndexStore

SpecIndex == InitIndex /\ [][NextIndex]_vars

\* search_products: the request bodies, the dates given as "YYYY-MM-DD" or,
\* against the contract, as a number
Query == S("lamp", 4)
Day   == S("2024-01-01", 10)
SearchBodies ==
    {None, JDict(<<>>), JDict([query |-> JStr(<<>>)]), JDict([query |-> Query]),
     JDict([query |-> Query, fromDate |-> Day]),
     JDict([query |-> Query, fromDate |-> Day, toDate |-> Day]),
     JDict([query |-> Query, fromDate |-> JNum(<<Txt("5", 1)>>)]),
     JDict([query |-> Query, toDate |-> JNum(<<Txt("5", 1)>>)])}

\* a row of the table with only its key
BareRow == [nuclia_document_id |-> DocumentId]

SearchEnvs ==
    [search : {"ok", "empty", "failure", "exception"},
     select : {"rows", "no_rows", "exception"},
     rows   : {<<OldRow>>, <<BareRow, OldRow>>},
     ask    : {"ok", "no_answer", "failure", "exception"}]

\* product.get(key, default) on a row
RowGet(row, key, default) == IF key \in DOMAIN row THEN row[key] ELSE default

\* lines 136-147
FrontendProduct(product) ==
    [name         |-> RowGet(product, "name", S("Unknown Product", 15)),
     price        |-> RowGet(product, "price_text", S("Price not available", 19)),
     description  |-> RowGet(product, "description", S("No description available", 24)),
     supplier     |-> RowGet(product, "supplier", S("Unknown Supplier", 16)),
     availability |-> RowGet(product, "availability", S("Unknown", 7)),
     imageUrl     |-> RowGet(product, "image_url", JStr(<<>>)),
     productUrl   |-> RowGet(product, "product_url", JStr(<<>>)),
     category     |-> S("General", 7),
     rating       |-> JNum(<<Txt("0", 1)>>),
     features     |-> JList(<<>>)]

\* lines 118-121: a date that is given and is not a str makes `+` raise
DateRaises(body) ==
    \/ Truthy(Get(body, "fromDate", None)) /\ Get(body, "fromDate", None).t # "str"
    \/ Truthy(Get(body, "toDate", None)) /\ Get(body, "toDate", None).t # "str"

SearchAnswer(query, summary, products) ==
    Respond(200, [success |-> TRUE, query |-> query, summary |-> summary,
                  structured_data |-> [products |-> products]])

InitSearch ==
    /\ h_handler = "search_products"
    /\ h_body \in SearchBodies
    /\ supabase \in BOOLEAN
    /\ env \in SearchEnvs
    /\ h_pc = "start"
    /\ calls = <<>>
    /\ result = None
    /\ extracted_details = <<>>
    /\ store = {}
    /\ response = None
    /\ h_exc = NoException
    /\ GatewayIdle
    /\ AskIdle
    /\ ExtIdle
    /\ BnIdle

\* lines 80-92
SearchStart ==
    /\ h_handler = "search_products"
    /\ h_pc = "start"
    /\ IF ~supabase
         THEN /\ response' = Respond(500, [success |-> FALSE,
                                 error |-> <<Txt("Supabase not configured", 23)>>])
              /\ h_pc' = "done"
              /\ UNCHANGED h_exc
         ELSE IF h_body = None
         THEN \* data.get on None, outside the try of line 94
              /\ h_exc' = "AttributeError"
              /\ h_pc' = "raised"
              /\ UNCHANGED response
         ELSE IF ~Truthy(Get(h_body, "query", None))
         THEN /\ response' = Respond(400, [success |-> FALSE,
                                 error |-> <<Txt("Query is required", 17)>>])
              /\ h_pc' = "done"
              /\ UNCHANGED h_exc
         ELSE /\ h_pc' = "search"
              /\ UNCHANGED <<response, h_exc>>
    /\ UNCHANGED <<h_handler, h_body, supabase, env, calls, result, extracted_details,
                   store>>
    /\ UNCHANGED <<askVars, extVars, bnVars, gwVars>>

\* lines 95-112: the search of the index
SearchNuclia ==
    /\ h_handler = "search_products"
    /\ h_pc = "search"
    /\ calls' = Append(calls, "search_nuclia_resources")
    /\ CASE env.search = "exception" ->
              /\ response' = InternalServerError
              /\ h_pc' = "done"
         [] env.search = "failure" ->
              /\ response' = Respond(500, FailureResult)
              /\ h_pc' = "done"
         [] env.search = "empty" ->
              /\ response' = SearchAnswer(Get(h_body, "query", None),
                     <<Txt("No products found matching your search criteria.", 48)>>, <<>>)
              /\ h_pc' = "done"
         [] env.search = "ok" ->
              /\ h_pc' = "select"
              /\ UNCHANGED response
    /\ UNCHANGED <<h_handler, h_body, supabase, env, result, extracted_details, store,
                   h_exc>>
    /\ UNCHANGED <<askVars, extVars, bnVars, gwVars>>

\* lines 114-148: the query of the products table
SearchSelect ==
    /\ h_handler = "search_products"
    /\ h_pc = "select"
    /\ IF DateRaises(h_body)
         THEN \* TypeError at line 119 or 121, before execute(); line 167 catches it
              /\ response' = InternalServerError
              /\ h_pc' = "done"
              /\ UNCHANGED <<calls, result>>
         ELSE /\ calls' = Append(calls, "select")
              /\ CASE env.select = "exception" ->
                        /\ response' = InternalServerError
                        /\ h_pc' = "done"
                        /\ UNCHANGED result
                   [] env.select = "no_rows" ->
                        /\ response' = SearchAnswer(Get(h_body, "query", None),
                               <<Txt("Products were found in search but no detailed information is available.", 71)>>,
                               <<>>)
                        /\ h_pc' = "done"
                        /\ UNCHANGED result
                   [] env.select = "rows" ->
                        /\ result' = [i \in 1..Len(env.rows) |-> FrontendProduct(env.rows[i])]
                        /\ h_pc' = "ask"
                        /\ UNCHANGED response
    /\ UNCHANGED <<h_handler, h_body, supabase, env, extracted_details, store, h_exc>>
    /\ UNCHANGED <<askVars, extVars, bnVars, gwVars>>

\* lines 150-165: the summary and the response
SearchAsk ==
    /\ h_handler = "search_products"
    /\ h_pc = "ask"
    /\ calls' = Append(calls, "ask_nuclia_nl")
    /\ response' =
         CASE env.ask = "exception" -> InternalServerError
           [] env.ask = "ok" ->
                SearchAnswer(Get(h_body, "query", None), <<Txt("answer", 30)>>, result)
           [] OTHER ->
                SearchAnswer(Get(h_body, "query", None),
                    <<Txt("Products found matching your search criteria.", 45)>>, result)
    /\ h_pc' = "done"
    /\ UNCHANGED <<h_handler, h_body, supabase, env, result, extracted_details, store,
                   h_exc>>
    /\ UNCHANGED <<askVars, extVars, bnVars, gwVars>>

NextSearch == SearchStart \/ SearchNuclia \/ SearchSelect \/ SearchAsk

\* a request to either handler
InitHandlers == InitIndex \/ InitSearch

NextHandlers ==
    \/ IndexStart \/ IndexUpload \/ IndexFetch \/ IndexStore
    \/ SearchStart \/ SearchNuclia \/ SearchSelect \/ SearchAsk

SpecHandlers == InitHandlers /\ [][NextHandlers]_vars

(***************************************************************************)
(* The operations of NucliaIndexer that make one HTTP call and give its    *)
(* result back: every one but ask_with_json_schema, which is above.        *)
(***************************************************************************)
GatewayOps ==
    {"upload_document", "upload_text", "upload_from_url", "patch_resource",
     "get_document_entities", "rephrase_query", "get_resource_by_id", "list_resources"}

\* what the HTTP call meets: a 2xx response with a JSON object, with a JSON
\* array or with a body that is not JSON; a non-2xx response with a JSON or
\* a text body; no response at all
HttpOutcomes ==
    {"ok", "ok_not_a_dict", "ok_not_json",
     "http_error_json", "http_error_text", "network_failure"}
HttpFailures == {"http_error_json", "http_error_text", "network_failure"}

\* the metadata argument
Metadatas ==
    {None, JDict(<<>>), JDict([a |-> JNull]), JDict([a |-> JStr(<<>>)]),
     JDict([a |-> S("x", 1)]), JDict([a |-> JNull, b |-> JNum(<<Txt("5", 1)>>)]),
     JDict([a |-> JStr(<<>>), b |-> JNum(<<Txt("0", 1)>>), c |-> S("y", 1)])}

\* FormatMetadata with `if value` as the test of line 52
FormatMetadata_DropsFalsy(metadata) ==
    IF ~Truthy(metadata) THEN None
    ELSE LET kept == {key \in DOMAIN metadata.v : Truthy(metadata.v[key])}
         IN  IF kept = {} THEN None
             ELSE JDict([fields |->
                     JDict([key \in kept |-> JDict([value |-> JStr(PyStr(metadata.v[key]))])])])

\* lines 41-58
FormatMetadata(metadata) ==
    IF ~Truthy(metadata) THEN None
    ELSE LET kept == {key \in DOMAIN metadata.v :
                         metadata.v[key] # None /\ metadata.v[key] # JStr(<<>>)}
         IN  IF kept = {} THEN None
             ELSE JDict([fields |->
                     JDict([key \in kept |-> JDict([value |-> JStr(PyStr(metadata.v[key]))])])])

\* lines 60-69: the error string of a failed call
ErrorDetails(http) ==
    <<Txt("str(e)", 20)>>
    \o (CASE http = "http_error_json" -> <<Txt(" | Response: ", 13), Txt("json", 10)>>
          [] http = "http_error_text" -> <<Txt(" | Response: ", 13), Txt("text", 10)>>
          [] OTHER                    -> <<>>)

\* ErrorDetails when the JSONDecodeError of a text body is not caught
HandleRequestException_TextBodyRaises(http, method_name, query) ==
    IF http = "http_error_text"
      THEN [exc |-> "JSONDecodeError", ret |-> None]
      ELSE [exc |-> NoException,
            ret |-> IF method_name = "rephrase_query"
                      THEN [success |-> FALSE, error |-> ErrorDetails(http),
                            rephrased_query |-> query]
                      ELSE [success |-> FALSE, error |-> ErrorDetails(http)]]

\* lines 60-69, with line 326 for rephrase_query: the failure result
HandleRequestException(http, method_name, query) ==
    [exc |-> NoException,
     ret |-> IF method_name = "rephrase_query"
               THEN [success |-> FALSE, error |-> ErrorDetails(http),
                     rephrased_query |-> query]
               ELSE [success |-> FALSE, error |-> ErrorDetails(http)]]

\* the operations that read the JSON of the response with .get
ReadsJson ==
    {"upload_document", "upload_text", "upload_from_url",
     "get_document_entities", "rephrase_query", "list_resources"}

\* the result of a 2xx response with a JSON object
SuccessResult(op) ==
    CASE op \in {"upload_document", "upload_text", "upload_from_url", "patch_resource"} ->
             [success |-> TRUE, document_id |-> DocumentId]
      [] op = "get_document_entities" ->
             [success |-> TRUE, entities |-> JDict(<<>>), relations |-> JList(<<>>)]
      [] op = "rephrase_query" ->
             [success |-> TRUE, rephrased_query |-> Query]
      [] op = "get_resource_by_id" ->
             [success |-> TRUE, resource |-> ResFields]
      [] op = "list_resources" ->
             [success |-> TRUE, resources |-> JList(<<>>)]

\* the HTTP method of each operation
Method(op) ==
    CASE op = "patch_resource" -> "PATCH"
      [] op \in {"get_document_entities", "get_resource_by_id", "list_resources"} -> "GET"
      [] OTHER -> "POST"

\* lines 96-99, 125-128, 154-157 and 179: the usermetadata of the payload,
\* None when the payload has none
PayloadUsermetadata(op, metadata) ==
    IF op \in {"upload_document", "upload_text", "upload_from_url", "patch_resource"}
       /\ Truthy(metadata)
      THEN FormatMetadata(metadata)
      ELSE None

InitGateway ==
    /\ gw_op \in [name : GatewayOps, metadata : Metadatas]
    /\ gw_http \in HttpOutcomes
    /\ gw_pc = "start"
    /\ gw_return = None
    /\ gw_exc = NoException
    /\ gw_requests = <<>>
    /\ HandlerIdle
    /\ AskIdle
    /\ ExtIdle
    /\ BnIdle

\* lines 71-186 and 305-371: one operation, from its call to its result
GatewayCall ==
    /\ gw_pc = "start"
    /\ LET out ==
             IF gw_op.name = "patch_resource" /\ FormatMetadata(gw_op.metadata) = None
               THEN \* lines 175-177: no HTTP call is made
                    [exc |-> NoException,
                     ret |-> [success |-> FALSE,
                              error |-> <<Txt("No valid metadata provided to patch.", 36)>>]]
             ELSE IF gw_http \in HttpFailures \cup {"ok_not_json"}
               THEN HandleRequestException(gw_http, gw_op.name, Query)
             ELSE IF gw_http = "ok_not_a_dict" /\ gw_op.name \in ReadsJson
               THEN [exc |-> "AttributeError", ret |-> None]
             ELSE [exc |-> NoException, ret |-> SuccessResult(gw_op.name)]
       IN  /\ gw_exc' = out.exc
           /\ gw_return' = out.ret
           /\ gw_pc' = IF out.exc = NoException THEN "done" ELSE "raised"
    /\ gw_requests' =
           IF gw_op.name = "patch_resource" /\ FormatMetadata(gw_op.metadata) = None
             THEN <<>>
             ELSE <<[method |-> Method(gw_op.name),
                     usermetadata |-> PayloadUsermetadata(gw_op.name, gw_op.metadata)]>>
    /\ UNCHANGED <<gw_op, gw_http>>
    /\ UNCHANGED <<askVars, extVars, bnVars, hVars>>

\* any operation of the gateway
InitGatewayOrAsk == InitGateway \/ InitAsk

NextGateway ==
    GatewayCall \/ AskRequest \/ DecodeStep \/ DecodeEnd \/ Merge \/ AskReturn

SpecGateway == InitGatewayOrAsk /\ [][NextGateway]_vars

(***************************************************************************)
(* Properties of ask_with_json_schema.  They are stated on the response    *)
(* the service gave (resp), not on the decoder's own cursor.               *)
(***************************************************************************)
AskMerged  == ask_pc \in {"return", "done", "raised"}
AskEnded   == ask_pc \in {"done", "raised"}
AskReturned == ask_pc = "done" /\ ask_return.success

IsObjChunk(ch)  == Len(ch) = 3 /\ ch[2].c = "members"
IsDocChunk(ch)  == IsObjChunk(ch) \/ ch = NumChunk
IsBadChunk(ch)  == ch = JunkChunk \/ (Len(ch) = 2 /\ ch[2].c = "members")
ChunkValue(ch)  == IF IsObjChunk(ch) THEN ch[2].obj ELSE JNum(<<Txt("7", 1)>>)
HasProductsArray(d) == "products" \in DOMAIN d.v /\ d.v.products.t = "list"

\* the text is objects with a "products" array, with blanks only around them
OnlyProductObjects(chs) ==
    \A i \in 1..Len(chs) :
        chs[i] = WsChunk \/ (IsObjChunk(chs[i]) /\ HasProductsArray(chs[i][2].obj))

\* the elements of the products arrays of chunks 1..n, in document order
RECURSIVE ProductsUpTo(_, _)
ProductsUpTo(chs, n) ==
    IF n = 0 THEN <<>>
    ELSE ProductsUpTo(chs, n - 1)
         \o (IF IsObjChunk(chs[n]) THEN chs[n][2].obj.v.products.v ELSE <<>>)

\* the sum of the sizes k_i
RECURSIVE SizesUpTo(_, _)
SizesUpTo(chs, n) ==
    IF n = 0 THEN 0
    ELSE SizesUpTo(chs, n - 1)
         + (IF IsObjChunk(chs[n]) THEN Len(chs[n][2].obj.v.products.v) ELSE 0)

\* C1: for an answer text made of N >= 0 objects with a "products" array of
\* k_i elements, with blanks only between them, the aggregate product
\* sequence has sum(k_i) elements, in document order; what the call returns
\* carries that sequence.
C1_ProductsInDocumentOrder ==
    (resp.status = "ok" /\ OnlyProductObjects(resp.answer) /\ AskMerged) =>
        /\ Len(all_products) = SizesUpTo(resp.answer, Len(resp.answer))
        /\ all_products = ProductsUpTo(resp.answer, Len(resp.answer))
        /\ (AskReturned /\ all_products # <<>>) =>
               ask_return.structured_data.products = all_products

C1_Witness ==
    /\ AskReturned
    /\ resp.answer = <<ObjChunk(DocA), WsChunk, ObjChunk(DocBC)>>
    /\ ask_return.structured_data.products = <<PA, PB, PC>>

\* the first chunk that cannot be decoded, 0 if there is none
FirstBad(chs) ==
    IF \E i \in 1..Len(chs) : IsBadChunk(chs[i])
      THEN CHOOSE i \in 1..Len(chs) :
               IsBadChunk(chs[i]) /\ \A j \in 1..(i - 1) : ~IsBadChunk(chs[j])
      ELSE 0

\* the values of the documents among chunks 1..n
RECURSIVE ValuesUpTo(_, _)
ValuesUpTo(chs, n) ==
    IF n = 0 THEN <<>>
    ELSE ValuesUpTo(chs, n - 1)
         \o (IF IsDocChunk(chs[n]) THEN <<ChunkValue(chs[n])>> ELSE <<>>)

\* one document or more, then a remainder that cannot be decoded
DocsThenGarbage(chs) ==
    /\ FirstBad(chs) > 0
    /\ \E j \in 1..(FirstBad(chs) - 1) : IsDocChunk(chs[j])

\* C2: for an answer text whose prefix is one or more valid documents and
\* whose remainder cannot be decoded, the decoder stops at the first
\* undecodable offset, keeps exactly the documents decoded before it,
\* consumes nothing after it, and returns normally.
C2_StopsAtGarbageAndReturns ==
    (resp.status = "ok" /\ DocsThenGarbage(resp.answer) /\ AskEnded) =>
        /\ structured_data_list = ValuesUpTo(resp.answer, FirstBad(resp.answer) - 1)
        /\ pos = Len(LStrip(Flatten(SubSeq(resp.answer, 1, FirstBad(resp.answer) - 1))))
        /\ AskReturned

\* C3: the decode-and-merge step raises no exception and the call returns a
\* result with success = true, whatever the answer text holds.
C3_DecoderNeverRaises ==
    resp.status = "ok" =>
        /\ ask_pc # "raised"
        /\ ask_exc = NoException
        /\ ask_pc = "done" => ask_return.success

\* C4: with an empty aggregate product sequence the call returns
\* structured_data = null with success = true, the answer text and the
\* citations; with a non-empty one structured_data holds that sequence.
C4_NullWhenNoProducts ==
    (resp.status = "ok" /\ AskEnded) =>
        /\ AskReturned
        /\ ask_return.answer = answer
        /\ ask_return.citations = resp.citations
        /\ all_products = <<>> => ask_return.structured_data = None
        /\ all_products # <<>> =>
               /\ ask_return.structured_data # None
               /\ ask_return.structured_data.products = all_products

\* a "summary" field that holds something
NonEmptySummary(item) ==
    /\ item.t = "dict"
    /\ "summary" \in DOMAIN item.v
    /\ item.v.summary \notin {JNull, JStr(<<>>), JNum(<<Txt("0", 1)>>), JList(<<>>)}

\* the " | "-join of the non-empty summaries of items[i..], first is TRUE
\* until one summary has been written
RECURSIVE PipeJoined(_, _, _)
PipeJoined(items, i, first) ==
    IF i > Len(items) THEN <<>>
    ELSE IF NonEmptySummary(items[i])
      THEN (IF first THEN <<>> ELSE <<Txt(" | ", 3)>>)
           \o items[i].v.summary.v \o PipeJoined(items, i + 1, FALSE)
    ELSE PipeJoined(items, i + 1, first)

\* C5: when the structured result is present, its summary is the " | "-join,
\* in decode order, of the non-empty summaries of the decoded objects,
\* whether or not the object contributed products; it is empty when there
\* is none.
C5_SummaryIsPipeJoin ==
    (AskReturned /\ ask_return.structured_data # None) =>
        ask_return.structured_data.summary = PipeJoined(structured_data_list, 1, TRUE)

C5_Witness ==
    /\ AskReturned
    /\ ask_return.structured_data # None
    /\ structured_data_list = <<DocSum, DocBC, DocNone>>
    /\ ask_return.structured_data.summary
         = <<Txt("u", 1), Txt(" | ", 3), Txt("s", 1), Txt(" | ", 3), Txt("t", 1)>>


(***************************************************************************)
(* Properties of extract_product_details_from_content.                     *)
(***************************************************************************)
ProductDetailsFields ==
    {"name", "price", "currency", "description", "imageUrl", "supplier",
     "availability", "productUrl"}

\* C6: for every HTML text and source URL the call returns a ProductDetails
\* record and raises no exception, whatever the types in a Product block.
C6_ExtractorNeverFails ==
    ext_pc # "idle" =>
        /\ ext_pc # "raised"
        /\ ext_exc = NoException
        /\ ext_pc = "done" => DOMAIN ext_return = ProductDetailsFields

\* a structured-data block that parses as a JSON object of type Product
IsProductBlock(tk) ==
    /\ tk.k = "ldjson"
    /\ tk.p.valid
    /\ tk.p.val.t = "dict"
    /\ "@type" \in DOMAIN tk.p.val.v
    /\ tk.p.val.v["@type"] = S("Product", 7)

HoldsProductBlock(text) == \E i \in 1..Len(text) : IsProductBlock(text[i])

FirstProductBlock(text) ==
    text[CHOOSE i \in 1..Len(text) :
            IsProductBlock(text[i]) /\ \A j \in 1..(i - 1) : ~IsProductBlock(text[j])]

\* what a Product block b gives for each field
BlockName(b)     == IF "name" \in DOMAIN b.v THEN {b.v["name"]} ELSE {}
BlockSupplier(b) ==
    IF "brand" \in DOMAIN b.v
      THEN {b.v["brand"]}
           \cup (IF b.v["brand"].t = "dict" /\ "name" \in DOMAIN b.v["brand"].v
                   THEN {b.v["brand"].v["name"]} ELSE {})
      ELSE {}
BlockImage(b) ==
    IF "image" \in DOMAIN b.v
      THEN {b.v["image"]}
           \cup (IF b.v["image"].t = "list" /\ b.v["image"].v # <<>>
                   THEN {b.v["image"].v[1]} ELSE {})
      ELSE {}
BlockPrice(b) ==
    IF "offers" \in DOMAIN b.v /\ b.v["offers"].t = "dict"
       /\ "price" \in DOMAIN b.v["offers"].v
      THEN {JStr(<<Txt("$", 1)>> \o b.v["offers"].v["price"].v)}
      ELSE {}
BlockDescription(b) ==
    IF "description" \in DOMAIN b.v /\ b.v["description"].t = "str"
      THEN {JStr(TakeChars(b.v["description"].v, 300))}
      ELSE {}

\* C7: if the content holds a Product block, the call returns right after
\* the first such block and no regex fallback is evaluated: name, price,
\* imageUrl, description and supplier come from that block or stay at their
\* defaults, and availability stays "Unknown".
C7_ProductBlockSkipsFallbacks ==
    (ext_pc # "idle" /\ HoldsProductBlock(content)) =>
        /\ ext_pc \in {"start", "jsonld", "done"}
        /\ ext_pc = "done" =>
             LET b  == FirstProductBlock(content).p.val
                 d0 == DefaultDetails(content, source_url)
             IN  /\ ext_return.availability = S("Unknown", 7)
                 /\ ext_return.name \in {d0.name} \cup BlockName(b)
                 /\ ext_return.price \in {d0.price} \cup BlockPrice(b)
                 /\ ext_return.imageUrl \in {d0.imageUrl} \cup BlockImage(b)
                 /\ ext_return.description \in {d0.description} \cup BlockDescription(b)
                 /\ ext_return.supplier \in {d0.supplier} \cup BlockSupplier(b)

\* neither the structured-data pass nor a fallback pattern matches
NothingMatches(text) ==
    /\ ~HoldsProductBlock(text)
    /\ \A i \in 1..Len(Scanned(text)) : Scanned(text)[i].k = "text"

AllDefaultsBut(desc) ==
    [name         |-> S("Unknown Product", 15),
     price        |-> S("Price not available", 19),
     currency     |-> S("USD", 3),
     imageUrl     |-> S("https://via.placeholder.com/300x300?text=No+Image", 49),
     description  |-> desc,
     supplier     |-> S("Unknown Supplier", 16),
     productUrl   |-> JStr(source_url),
     availability |-> S("Unknown", 7)]

\* C8 as claimed: with no match at all the call returns the all-default
\* record, productUrl the source URL and description the first 200
\* characters of the raw content.
C8_AllDefaultsFirst200 ==
    (ext_pc = "done" /\ NothingMatches(content)) =>
        ext_return = AllDefaultsBut(JStr(TakeChars(content, 200)))

\* C8 as amended: with no match at all the call returns the all-default
\* record, productUrl the source URL and description the raw content when it
\* has at most 200 characters, else its first 200 characters followed by
\* "...".
C8_AllDefaultsWithEllipsis ==
    (ext_pc = "done" /\ NothingMatches(content)) =>
        ext_return = AllDefaultsBut(
                        IF CharLen(content) <= 200
                          THEN JStr(content)
                          ELSE JStr(TakeChars(content, 200) \o <<Txt("...", 3)>>))

C8_Witness ==
    /\ ext_pc = "done"
    /\ content = <<Pad, Note>>
    /\ source_url = UrlShopHttps
    /\ ext_return.description = JStr(<<Pad, Txt("plain words", 50), Txt("...", 3)>>)
    /\ ext_return.productUrl = JStr(UrlShopHttps)

IsAbsoluteUrl(u) == Len(u) >= 3 /\ u[1] \in {Http, Https} /\ u[2] = Slashes

\* the regex fallback pass has set the image
ImageFallbackDone ==
    \/ ext_pc \in {"supplier", "availability", "return"}
    \/ ext_pc = "done" /\ ld_matches = <<>>

\* C10: in the regex image fallback a protocol-relative URL is returned with
\* "https:" prepended, a relative URL resolved against the source URL and an
\* absolute URL unchanged, so imageUrl is an absolute URL or the placeholder.
C10_ImageUrlNormalized ==
    (ImageFallbackDone /\ FirstMatch(Scanned(content), img_patterns) # None) =>
        LET m   == FirstMatch(Scanned(content), img_patterns).p
            got == details.imageUrl.v
        IN  /\ m[1] = Slashes => got = <<Https>> \o m
            /\ IsAbsoluteUrl(m) => got = m
            /\ (m[1] # Slashes /\ ~IsAbsoluteUrl(m)) => got = UrlJoin(source_url, m)
            /\ IsAbsoluteUrl(got)

(***************************************************************************)
(* Properties of the records both extractors return.                       *)
(***************************************************************************)
FullyPopulated(record) ==
    /\ ProductDetailsFields \subseteq DOMAIN record
    /\ \A f \in ProductDetailsFields \cap DOMAIN record : record[f] # None

\* C9: the record returned by either extractor holds every ProductDetails
\* field (name, price, currency, description, imageUrl, supplier,
\* availability, productUrl) and none of them is null.
C9_EveryFieldPresentAndNonNull ==
    /\ ext_pc = "done" => FullyPopulated(ext_return)
    /\ bn_pc = "done" => FullyPopulated(bn_return)

(***************************************************************************)
(* Properties of extract_bn_product_details_from_content.                  *)
(***************************************************************************)
BnAllDefaults ==
    [name         |-> S("Unknown Product", 15),
     price        |-> S("Price not available", 19),
     imageUrl     |-> S("https://via.placeholder.com/300x300?text=No+Image", 49),
     description  |-> S("No description available.", 25),
     supplier     |-> S("Barnes & Noble", 14),
     author       |-> S("Unknown Author", 14),
     availability |-> S("Unknown", 7),
     productUrl   |-> JStr(bn_source_url)]

\* C12: without the product container the call returns the all-default
\* record at once and tries no fallback: no field step and no author pattern
\* is run, so author stays "Unknown Author" whatever the raw content holds.
C12_NoContainerAllDefaults ==
    (bn_pc # "idle" /\ ~bn_page.has_container) =>
        /\ bn_pc \in {"start", "done"}
        /\ bn_pc = "done" => bn_return = BnAllDefaults

C12_Witness ==
    /\ bn_pc = "done"
    /\ bs4_installed
    /\ ~bn_page.has_container
    /\ bn_page.outside = <<BnInputTag>>
    /\ bn_return.author = S("Unknown Author", 14)

(***************************************************************************)
(* Properties of the request handlers.                                     *)
(***************************************************************************)
Range(f) == {f[i] : i \in DOMAIN f}

IndexRuns  == h_handler = "index_url"
SearchRuns == h_handler = "search_products"

\* the host of the URL names the retailer, in any case of letters
RetailerHosts == {U("www.barnesandnoble.com", 22), U("WWW.BarnesAndNoble.COM", 22)}
HostMatchesRetailer(url) == Len(url) >= 3 /\ url[3] \in RetailerHosts

\* C11: the extractor used is decided by the target URL alone: the
\* structural extractor for a URL whose host holds the retailer domain, in
\* any case of letters, and the generic extractor for every other URL.
C11_SelectorByHost ==
    (IndexRuns /\ h_pc = "done" /\ response.status = 200) =>
        IF HostMatchesRetailer(Get(h_body, "url", None).v)
          THEN /\ "extract_bn_product_details_from_content" \in Range(calls)
               /\ "extract_product_details_from_content" \notin Range(calls)
          ELSE /\ "extract_product_details_from_content" \in Range(calls)
               /\ "extract_bn_product_details_from_content" \notin Range(calls)

\* the request lacks its required input
LacksInput ==
    \/ IndexRuns /\ (h_body = None \/ ~Truthy(Get(h_body, "url", None)))
    \/ SearchRuns /\ (h_body = None \/ ~Truthy(Get(h_body, "query", None)))

\* C13: a request without its required input (index_url without a url,
\* search_products without a query) ends with a failure and at no time has
\* a call to the indexing gateway or to the persistence store been made.
C13_RejectedBeforeOutboundWork ==
    LacksInput =>
        /\ calls = <<>>
        /\ h_pc \in {"start", "done", "raised"}
        /\ h_pc = "done" => /\ response.status \in {400, 500}
                            /\ ~response.body.success

C13_Witness ==
    /\ IndexRuns
    /\ h_body = JDict([url |-> JStr(<<>>)])
    /\ h_pc = "done"
    /\ response.status = 400
    /\ calls = <<>>

\* the call of this name met a failure
CallFailed(name) ==
    CASE name = "upload_from_url"    -> env.upload # "ok"
      [] name = "get_resource_by_id" -> env.fetch = "request_exception"
                                        \/ env.resource.t # "dict"
      [] name = "upsert"             -> env.upsert = "exception"
      [] OTHER                       -> FALSE

C15_NoCallTwice ==
    /\ \A i, j \in 1..Len(calls) : calls[i] = calls[j] => i = j
    /\ IndexRuns => Range(calls) \subseteq {"upload_from_url", "get_resource_by_id", "upsert"}
    /\ SearchRuns => Range(calls) \subseteq {"search_nuclia_resources", "select", "ask_nuclia_nl"}

C15_Witness ==
    /\ SearchRuns
    /\ h_pc = "done"
    /\ calls = <<"search_nuclia_resources", "select", "ask_nuclia_nl">>
    /\ env.ask = "failure"
    /\ response.status = 200

(***************************************************************************)
(* The contribution of each decoded value to the product sequence.         *)
(***************************************************************************)
IsObject(value) == value.t = "dict"

\* the products one decoded value is to contribute
Contribution(value) ==
    CASE IsObject(value) /\ HasProductsArray(value) -> value.v.products.v
      [] IsObject(value) /\ ~HasProductsArray(value)
         /\ {"name", "price"} \subseteq DOMAIN value.v -> <<value>>
      [] OTHER -> <<>>

\* C17: each decoded value contributes to the product sequence as follows:
\* an object with a "products" array contributes that array's elements, in
\* order, and not itself; otherwise an object with both a "name" and a
\* "price" key contributes itself; any other object, and any value that is
\* not an object, contributes nothing.
C17_ContributionOfEachValue ==
    AskMerged =>
        all_products =
            Flatten([i \in 1..Len(structured_data_list) |->
                        Contribution(structured_data_list[i])])

C17_Witness ==
    /\ AskMerged
    /\ structured_data_list = <<DocBoth, JNum(<<Txt("7", 1)>>), DocProdStr>>
    /\ all_products = <<PA, DocProdStr>>

(***************************************************************************)
(* Properties of the gateway operations.                                   *)
(***************************************************************************)
\* C16: a gateway operation whose HTTP call ends in a non-success response
\* or a network failure returns success = false with an error string that
\* holds the failure detail; it does not return success = true and does not
\* raise.
C16_FailureIsAResult ==
    /\ (gw_pc # "idle" /\ gw_http \in HttpFailures) =>
          /\ gw_pc # "raised"
          /\ gw_exc = NoException
          /\ gw_pc = "done" =>
                /\ ~gw_return.success
                /\ Len(gw_return.error) >= 1
                /\ gw_op.name = "patch_resource"
                   \/ gw_return.error[1] = Txt("str(e)", 20)
    /\ (ask_pc # "idle" /\ resp.status = "error") =>
          /\ ask_pc \in {"start", "done"}
          /\ ask_exc = NoException
          /\ ask_pc = "done" => /\ ~ask_return.success
                                /\ "error" \in DOMAIN ask_return

C16_Witness ==
    /\ gw_pc = "done"
    /\ gw_op.name = "upload_from_url"
    /\ gw_http = "http_error_text"
    /\ ~gw_return.success
    /\ gw_return.error = <<Txt("str(e)", 20), Txt(" | Response: ", 13), Txt("text", 10)>>

(***************************************************************************)
(* Properties of the regex fallback pass.                                  *)
(***************************************************************************)
FallbackRanPast(pcs) ==
    \/ ext_pc \in pcs
    \/ ext_pc = "done" /\ ld_matches = <<>>

\* the match of a pattern in the content, None without one
Candidate(kind) == FirstOfKind(Scanned(content), kind)

\* the first of the kinds, in their order, that the test accepts; 0 if none
FirstQualifying(kinds, Qualifies(_)) ==
    IF \E i \in 1..Len(kinds) : Qualifies(kinds[i])
      THEN CHOOSE i \in 1..Len(kinds) :
               Qualifies(kinds[i]) /\ \A j \in 1..(i - 1) : ~Qualifies(kinds[j])
      ELSE 0

NameOrder == <<"title", "json_name", "og_title", "h1">>
NameQualifies(kind) ==
    Candidate(kind) # None /\ CharLen(NameOfMatch(Candidate(kind))) > 3

\* C18: after the name step of the fallback pass the name is the first
\* candidate, in the order title tag, JSON-like name token, Open Graph
\* title, first level-1 heading, whose decoded trimmed text is longer than 3
\* characters, the title with its "|" or "-" suffix stripped; a shorter
\* candidate is passed over; with no such candidate the name is the default.
C18_NameIsFirstQualifyingCandidate ==
    FallbackRanPast({"price", "image", "supplier", "availability", "return"}) =>
        LET i == FirstQualifying(NameOrder, NameQualifies)
        IN  details.name = IF i = 0 THEN S("Unknown Product", 15)
                           ELSE JStr(NameOfMatch(Candidate(NameOrder[i])))

PriceOrder == <<"json_price", "currency_amount", "price_span">>
PriceQualifies(kind) ==
    Candidate(kind) # None /\ ~FloatFails(RemoveCommas(Candidate(kind).p))

\* C19: after the price step of the fallback pass the price is "$" and the
\* number of the first pattern, in the order JSON-like price token,
\* currency-symbol-prefixed number, price-class span, whose match parses as
\* a decimal number once its thousands separators are removed; a match that
\* does not parse is passed over; with no such match the price is the default.
C19_PriceIsFirstParsingMatch ==
    FallbackRanPast({"image", "supplier", "availability", "return"}) =>
        LET i == FirstQualifying(PriceOrder, PriceQualifies)
        IN  details.price = IF i = 0 THEN S("Price not available", 19)
                            ELSE JStr(<<Dollar>> \o RemoveCommas(Candidate(PriceOrder[i]).p))

\* the alternative of line 616 a match is a match of
IsInStockMatch(group) ==
    /\ Len(group) = 3
    /\ Lower(group)[1].s = "in" /\ IsBlank(group[2]) /\ Lower(group)[3].s = "stock"
IsOutOfStockMatch(group) ==
    /\ Len(group) = 5
    /\ Lower(group)[1].s = "out" /\ IsBlank(group[2]) /\ Lower(group)[3].s = "of"
    /\ IsBlank(group[4]) /\ Lower(group)[5].s = "stock"

\* C20: after the availability step of the fallback pass, availability is
\* decided by the first match of the availability pattern in the content:
\* "In Stock" for every match of the "in stock" alternative, "Out of Stock"
\* for every match of the "out of stock" alternative, the title-cased text
\* for any other match, and "Unknown" with no match.
C20_AvailabilityIsCanonical ==
    FallbackRanPast({"return"}) =>
        LET m == Candidate("availability")
        IN  details.availability =
                IF m = None THEN S("Unknown", 7)
                ELSE IF IsInStockMatch(m.p) THEN S("In Stock", 8)
                ELSE IF IsOutOfStockMatch(m.p) THEN S("Out of Stock", 12)
                ELSE JStr(Title(Lower(m.p)))

(***************************************************************************)
(* Properties of the order of the outbound calls of index_url.             *)
(***************************************************************************)
\* the upload returned success with a non-empty document identifier
UploadGaveId ==
    /\ calls # <<>>
    /\ calls[1] = "upload_from_url"
    /\ env.upload = "ok"
    /\ result.success
    /\ result.document_id # JStr(<<>>)

\* C21: in index_url the upsert is made only after the upload returned
\* success with a non-empty document identifier, and the upserted record is
\* keyed by that identifier; after a successful upload no later failure
\* makes the request issue a call that takes the upload back; when the
\* upload fails or gives no identifier neither the resource fetch nor the
\* upsert is made.
C21_UpsertOnlyAfterUpload ==
    IndexRuns =>
        /\ \A i \in 1..Len(calls) :
               calls[i] \in {"get_resource_by_id", "upsert"} => (i > 1 /\ UploadGaveId)
        /\ \A r \in store :
               r = OldRow \/ (UploadGaveId /\ "upsert" \in Range(calls)
                              /\ r.nuclia_document_id = DocumentId)
        /\ (h_pc = "done" /\ "upsert" \in Range(calls) /\ env.upsert = "ok") =>
               \E r \in store : /\ r # OldRow
                                 /\ r.nuclia_document_id = result.document_id
                                 /\ r.product_url = Get(h_body, "url", None)
        /\ UploadGaveId =>
               Range(calls) \subseteq {"upload_from_url", "get_resource_by_id", "upsert"}
        /\ (calls # <<>> /\ env.upload # "ok") => calls = <<"upload_from_url">>

C21_Witness ==
    /\ IndexRuns
    /\ h_pc = "done"
    /\ env.upsert = "exception"
    /\ calls = <<"upload_from_url", "get_resource_by_id", "upsert">>
    /\ result.success /\ result.document_id = DocumentId
    /\ response.status = 500
    /\ store = {OldRow}

(***************************************************************************)
(* Properties of the metadata sent with a gateway request.                 *)
(***************************************************************************)
\* the keys of a flat mapping whose value is neither None nor ""
KeptKeys(m) ==
    IF m.t # "dict" THEN {}
    ELSE {key \in DOMAIN m.v : m.v[key] \notin {JNull, JStr(<<>>)}}

\* m restricted to those keys, each value in its string form
KeptAsStrings(m) == [key \in KeptKeys(m) |-> JStr(PyStr(m.v[key]))]

\* C22: the metadata a request carries, flattened again, is the metadata
\* given restricted to the keys whose value is neither None nor the empty
\* string, each value in its string form; the formatted metadata is None
\* exactly when no key is kept, and patch_resource then returns a failure
\* result and issues no request.
C22_FormatThenFlatten ==
    gw_pc \in {"done", "raised"} =>
        LET m == gw_op.metadata IN
        /\ (FormatMetadata(m) = None) <=> (KeptKeys(m) = {})
        /\ \A i \in 1..Len(gw_requests) :
               gw_requests[i].usermetadata # None =>
                   /\ KeptKeys(m) # {}
                   /\ FlattenUsermetadata(gw_requests[i].usermetadata) = KeptAsStrings(m)
        /\ (gw_op.name = "patch_resource" /\ KeptKeys(m) # {}) =>
               /\ Len(gw_requests) = 1
               /\ FlattenUsermetadata(gw_requests[1].usermetadata) = KeptAsStrings(m)
        /\ (gw_op.name = "patch_resource" /\ KeptKeys(m) = {}) =>
               /\ gw_requests = <<>>
               /\ gw_pc = "done"
               /\ ~gw_return.success

C22_Witness ==
    /\ gw_pc = "done"
    /\ gw_op.name = "patch_resource"
    /\ gw_op.metadata = JDict([a |-> JStr(<<>>), b |-> JNum(<<Txt("0", 1)>>), c |-> S("y", 1)])
    /\ Len(gw_requests) = 1
    /\ gw_requests[1].method = "PATCH"
    /\ FlattenUsermetadata(gw_requests[1].usermetadata) = [b |-> S("0", 1), c |-> S("y", 1)]

(***************************************************************************)
(* Termination of the decode loop.                                         *)
(***************************************************************************)
InDecodeLoop == ask_pc = "loop"

\* C23: the decode loop ends for every answer text: the cursor never goes
\* back and never passes the end of the text, an iteration that stays in the
\* loop moves the cursor on by one character or more, the text is not
\* changed while it is scanned, and the call leaves the loop.
C23_DecodeLoopTerminates ==
    /\ [](pos <= Len(answer))
    /\ [][InDecodeLoop => /\ pos' >= pos
                          /\ answer' = answer
                          /\ InDecodeLoop' => pos' >= pos + 1]_vars
    /\ <>(ask_pc \notin {"start", "loop"})

C23_Witness ==
    /\ ask_pc = "merge"
    /\ resp.answer = <<WsChunk, ObjChunk(DocA), WsChunk>>
    /\ Len(answer) = 4
    /\ pos = 4
    /\ structured_data_list = <<DocA>>

=============================================================================
